---- MODULE Spec2Model ----
(***************************************************************************)
(* Model of the revision transition engine of sn-server:                   *)
(* TransitionRevisionsFromPrimaryToSecondaryDatabaseForUser.execute and    *)
(* its private helpers (src/unnamed/part_001).  There is one action per    *)
(* awaited call of the use case, and every awaited call may also throw.    *)
(* SchedulerSpec follows the scheduled task that requests the transitions  *)
(* (src/packages/auth/bin/transition.ts) and UpdaterSpec the item updater  *)
(* of the syncing server (UpdateExistingItem).  ConcurrentSpec has two      *)
(* execute calls for one user interleave at their awaited calls.           *)
(***************************************************************************)
EXTENDS Integers, Sequences, FiniteSets, TLC

\* ------------------------------------------------------------------ bounds
MaxRev == 2          \* revision ids 1..MaxRev in the exhaustive initial states
MaxPageSize == 2     \* pageSize is drawn from 1..MaxPageSize
MaxProgress == 2     \* stored progress cursors are drawn from 1..MaxProgress
MaxFaults == 1       \* awaited calls that throw, inserts that report false, cancellations
MaxUsers == 1        \* users created in the window of the scheduled task
MaxRuns == 2         \* requestTransition calls (runs of the scheduled task)
MaxAssociationIds == 2 \* ids of the associations created for an item
MaxTotalPages == 120   \* page counts for which the keep-alive cadence is computed

\* ------------------------------------------------------------------ values
InProgress == "InProgress"
Verified == "Verified"
Failed == "Failed"

NoResult == [kind |-> "none", error |-> ""]
ResultOk == [kind |-> "ok", error |-> ""]
ResultFail(e) == [kind |-> "fail", error |-> e]

Min(a, b) == IF a < b THEN a ELSE b

Last(s) == s[Len(s)]

\* Math.ceil(a / b) for a >= 0 and b > 0
Ceil(a, b) == (a + b - 1) \div b

Revision(i, u, p) == [id |-> i, updatedAt |-> u, payload |-> p]

\* Revision.isIdenticalTo: the payload fields and the timestamps are equal
isIdenticalTo(a, b) ==
    /\ a.id = b.id
    /\ a.updatedAt = b.updatedAt
    /\ a.payload = b.payload

\* ----------------------------------------------- RevisionRepositoryInterface
\* A store is the set of the user's revisions; pages are read in id order.
countByUserUuid(store) == Cardinality(store)

RECURSIVE SortedById(_)
SortedById(store) ==
    IF store = {} THEN <<>>
    ELSE LET r == CHOOSE x \in store : \A y \in store : x.id <= y.id
         IN <<r>> \o SortedById(store \ {r})

findByUserUuid(store, offset, limit) ==
    LET all == SortedById(store)
    IN SubSeq(all, offset + 1, Min(offset + limit, Len(all)))

NoRevision == [id |-> 0, updatedAt |-> 0, payload |-> "none"]

findOneByUuid(store, id) ==
    IF \E r \in store : r.id = id
    THEN CHOOSE r \in store : r.id = id
    ELSE NoRevision

insert(store, revision) == store \cup {revision}

removeOneByUuid(store, id) == {r \in store : r.id # id}

removeByUserUuid(store) == {}

\* ------------------------------------------------------------------- state
VARIABLES
    secondary,          \* secondRevisionsRepository: the user's revisions
    primary,            \* primaryRevisionsRepository: the user's revisions
    pagingProgress,     \* transitionStatusRepository paging cursor
    integrityProgress,  \* transitionStatusRepository integrity cursor
    pageSize,           \* constructor argument pageSize
    pc,                 \* position of the running execute call
    currentPage,        \* loop variable of the page loops
    totalPages,         \* page bound computed before the running loop
    secondaryCount,     \* totalRevisionsCountForUserInSecondary (integrity)
    revisions,          \* revisions of the fetched page not yet processed
    error,              \* error of the failed migrationResult / integrityCheckResult
    result,             \* Result returned by execute
    published,          \* statuses published by this execute call, in order
    calls,              \* store, timer and publisher calls made by this execute call
    fetched,            \* pages read from secondary by this execute call, in order
    errorLog,           \* logger.error messages of this execute call
    config,             \* what the use case is constructed and called with
    atStart,            \* stores and cursors when this execute call started
    previous,           \* how the previous execute call ended
    crashedAt,          \* where the running execute call was cancelled, if it was
    faults              \* faults injected so far

\* the scheduled task of the auth service and what it drives
VARIABLES
    transitionStatuses, \* TransitionStatus row of every (user, type)
    usersWithTransitionRole, \* users that hold the role TransitionUser
    attempts,           \* per (user, type) and scheduler run: the requested transition
    statusEvents,       \* per (user, type): TransitionStatusUpdated events not yet handled
    scheduler,          \* locals of the running requestTransition call
    everForced          \* some requestTransition call so far had forceRun set

\* the item updater of the syncing server (UpdateExistingItem.execute)
VARIABLES
    existingItem,       \* props of dto.existingItem, updated in place
    dto,                \* itemHash, sessionUuid and performingUserUuid of the running call
    updaterPc,          \* position of the running call
    updateResult,       \* Result returned by the call
    saveCalls,          \* itemRepository.save calls of this call
    publishedEvents,    \* events published by this call, in order
    itemAtStart,        \* props of dto.existingItem when the call started
    appliedAgain        \* the call repeats the input of the call before it

\* two execute calls for the same user at the same time
VARIABLES
    shared,             \* the stores, the cursors and the page size both calls work with
    attempt             \* locals of each of the two execute calls

stores == <<secondary, primary>>
progress == <<pagingProgress, integrityProgress>>
locals == <<currentPage, totalPages, secondaryCount, revisions, error>>
history == <<published, calls, fetched, errorLog>>
context == <<pageSize, config, atStart, previous, crashedAt>>
migrator == <<stores, progress, locals, history, context, pc, result, faults>>
scheduling == <<transitionStatuses, usersWithTransitionRole, attempts, statusEvents,
                scheduler, everForced>>
updater == <<existingItem, dto, updaterPc, updateResult, saveCalls, publishedEvents,
             itemAtStart, appliedAgain>>
concurrency == <<shared, attempt>>
vars == <<migrator, scheduling, updater, concurrency>>

\* -------------------------------------------------- transition statuses
Users == 1 .. MaxUsers

Types == {"items", "revisions"}

Pairs == Users \X Types

Absent == "absent"

Statuses == {InProgress, Verified, Failed}

\* a page after the first one
LaterPage == 2

\* the TransitionStatus of a (user, type) without a row: no status, and both
\* progress cursors at their default
NoTransitionStatus == [status |-> Absent, pagingProgress |-> 1, integrityProgress |-> 1]

\* a requested transition: its TransitionRequested event is on the bus
\* ("requested"), or its use case is at one of these positions of execute
AttemptPhases == {"none", "requested", "started", "inProgress", "migrating", "checking", "over"}

\* requestTransition is not running
SchedulerIdle ==
    [pc |-> "idle", run |-> 0, forceRun |-> FALSE, totalPages |-> 0, currentPage |-> 0,
     users |-> <<>>, itemsTransitionStatus |-> Absent,
     revisionsTransitionStatus |-> Absent]

\* the scheduled task is never started and has no user to look at
SchedulingAtRest ==
    /\ transitionStatuses = <<>>
    /\ usersWithTransitionRole = {}
    /\ attempts = <<>>
    /\ statusEvents = <<>>
    /\ scheduler = SchedulerIdle
    /\ everForced = FALSE

\* ------------------------------------------------------------- item updater
\* Items, item hashes and the input of UpdateExistingItem.execute.  A field
\* that is not set holds Null.
Null == "null"

\* Uuid.create fails on the one string that is no uuid
InvalidUuid == "invalid-uuid"
IsUuid(s) == s # InvalidUuid

\* ContentType.create fails outside the fixed vocabulary
ContentTypes == {"Note"}

SessionUuid == "00000000-0000-0000-0000-000000000000"
PerformingUserUuid == "00000000-0000-0000-0000-000000000001"
DuplicateUuid == "00000000-0000-0000-0000-000000000002"
SharedVaultUuids == {"vault-1", "vault-2"}
KeySystemIdentifiers == {"key-system-1", "key-system-2"}

\* date strings of a hash, and what they are in microseconds
DateStrings == {"1970-01-01T00:00:00.001Z", "1970-01-01T00:00:00.002Z"}
convertStringDateToMicroseconds(date) ==
    IF date = "1970-01-01T00:00:00.001Z" THEN 1000 ELSE 2000

\* a time in microseconds that is not set
NoTimestamp == 0

Timestamps(createdAt, updatedAt) == [createdAt |-> createdAt, updatedAt |-> updatedAt]
NoTimestamps == Timestamps(NoTimestamp, NoTimestamp)

\* an association is the entity's id and what it associates the item with
NoAssociation == [id |-> 0, with |-> Null, lastEditedBy |-> Null]
Association(id, with, lastEditedBy) == [id |-> id, with |-> with, lastEditedBy |-> lastEditedBy]

\* the id of an entity created to replace the association
NewId(association) == (association.id % MaxAssociationIds) + 1

\* the item of the use case's tests
item1 ==
    [updatedWithSession |-> Null,
     content |-> "foobar",
     contentType |-> "Note",
     encItemKey |-> Null,
     authHash |-> Null,
     itemsKeyId |-> Null,
     duplicateOf |-> Null,
     deleted |-> FALSE,
     timestamps |-> Timestamps(123, 123),
     sharedVaultAssociation |-> NoAssociation,
     keySystemAssociation |-> NoAssociation]

\* item1 as a deletion leaves it
deletedItem == [item1 EXCEPT !.deleted = TRUE, !.content = Null]

\* the four opaque payload fields of a hash
PayloadForms ==
    {[content |-> c, enc_item_key |-> k, auth_hash |-> k, items_key_id |-> k] :
        c \in {Null, "asdqwe1"}, k \in {Null, "qweqwe1"}}

\* the two forms of the times of a hash
TimeForms ==
    {[created_at_timestamp |-> f[1], updated_at_timestamp |-> f[2],
      created_at |-> f[3], updated_at |-> f[4]] :
        f \in {<<1500, 2500, Null, Null>>,
               <<NoTimestamp, NoTimestamp, "1970-01-01T00:00:00.001Z", "1970-01-01T00:00:00.002Z">>,
               <<1500, 2500, "1970-01-01T00:00:00.001Z", "1970-01-01T00:00:00.002Z">>,
               <<NoTimestamp, 2500, "1970-01-01T00:00:00.001Z", "1970-01-01T00:00:00.002Z">>,
               <<NoTimestamp, NoTimestamp, Null, "1970-01-01T00:00:00.002Z">>,
               <<NoTimestamp, NoTimestamp, Null, Null>>}}

ItemHash(payload, time, content_type, duplicate_of, deleted, shared_vault_uuid, key_system_identifier) ==
    [content |-> payload.content,
     enc_item_key |-> payload.enc_item_key,
     auth_hash |-> payload.auth_hash,
     items_key_id |-> payload.items_key_id,
     content_type |-> content_type,
     duplicate_of |-> duplicate_of,
     deleted |-> deleted,
     created_at_timestamp |-> time.created_at_timestamp,
     updated_at_timestamp |-> time.updated_at_timestamp,
     created_at |-> time.created_at,
     updated_at |-> time.updated_at,
     shared_vault_uuid |-> shared_vault_uuid,
     key_system_identifier |-> key_system_identifier]

FullPayload == CHOOSE payload \in PayloadForms : Null \notin {payload.content, payload.enc_item_key}
TimestampsOnly ==
    CHOOSE time \in TimeForms : time.created_at_timestamp # NoTimestamp /\ time.created_at = Null

\* the hashes a call is made with: every payload, deletion, duplication and
\* association of a hash with valid fields, and the hashes that differ from a
\* plain one in their times or in one invalid field
ItemHashes ==
    {ItemHash(payload, TimestampsOnly, "Note", duplicate_of, deleted, shared_vault_uuid,
              key_system_identifier) :
        payload \in PayloadForms, duplicate_of \in {Null, DuplicateUuid}, deleted \in BOOLEAN,
        shared_vault_uuid \in {Null} \cup SharedVaultUuids,
        key_system_identifier \in {Null} \cup KeySystemIdentifiers}
    \cup {ItemHash(FullPayload, time, "Note", duplicate_of, FALSE, Null, Null) :
            time \in TimeForms, duplicate_of \in {Null, DuplicateUuid}}
    \cup {ItemHash(FullPayload, TimestampsOnly, content_type, duplicate_of, deleted,
                   shared_vault_uuid, key_system_identifier) :
            content_type \in {"Note", "invalid"}, duplicate_of \in {Null, InvalidUuid},
            deleted \in BOOLEAN, shared_vault_uuid \in {Null, InvalidUuid},
            key_system_identifier \in {Null, InvalidUuid}}

Dtos ==
    {[itemHash |-> h, sessionUuid |-> SessionUuid, performingUserUuid |-> PerformingUserUuid] :
        h \in ItemHashes}
    \cup {[itemHash |-> ItemHash(FullPayload, TimestampsOnly, "Note", Null, deleted, Null, Null),
           sessionUuid |-> s, performingUserUuid |-> u] :
            deleted \in BOOLEAN, s \in {SessionUuid, InvalidUuid},
            u \in {PerformingUserUuid, InvalidUuid}}

\* no call is running
NoDto == [itemHash |-> Null, sessionUuid |-> Null, performingUserUuid |-> Null]

\* the use case is constructed and never called: it has been given no item
UpdaterAtRest ==
    /\ existingItem = Null
    /\ dto = NoDto
    /\ updaterPc = "idle"
    /\ updateResult = NoResult
    /\ saveCalls = 0
    /\ publishedEvents = <<>>
    /\ itemAtStart = Null
    /\ appliedAgain = FALSE

\* no two calls are made at the same time
ConcurrencyAtRest ==
    /\ shared = <<>>
    /\ attempt = <<>>

\* ----------------------------------------------------------- initial states
RevisionIds == 1 .. MaxRev

\* the secondary copy of revision i
SecondaryCopy(i) == Revision(i, 2, "a")

\* primary copies of revision i: identical, newer, older, same time but different
PrimaryCopies(i) ==
    {Revision(i, 2, "a"), Revision(i, 3, "b"), Revision(i, 1, "a"), Revision(i, 2, "b")}

\* a revision of the user that only the primary store has
PrimaryOnly == Revision(MaxRev + 1, 2, "a")

NoPrevious == [end |-> "none", phase |-> "none", page |-> 0, last |-> "none"]

\* the repositories execute is constructed with and the uuid it is called with
Configurations == {"ok", "noSecondaryRepository", "noTransitionRepository", "invalidUuid"}

InitProcess ==
    /\ pc = "idle"
    /\ currentPage = 0
    /\ totalPages = 0
    /\ secondaryCount = 0
    /\ revisions = <<>>
    /\ error = ""
    /\ result = NoResult
    /\ published = <<>>
    /\ calls = {}
    /\ fetched = <<>>
    /\ errorLog = {}
    /\ config \in Configurations
    /\ atStart = [secondary |-> {}, primary |-> {}, paging |-> 0, integrity |-> 0]
    /\ previous = NoPrevious
    /\ crashedAt = "none"

\* every small content of the two stores, page size and stored cursors
InitSmall ==
    /\ \E inSecondary \in SUBSET RevisionIds :
         /\ secondary = {SecondaryCopy(i) : i \in inSecondary}
         /\ \E inPrimary \in SUBSET inSecondary :
              \E copy \in [inPrimary -> UNION {PrimaryCopies(i) : i \in RevisionIds}] :
                 /\ \A i \in inPrimary : copy[i] \in PrimaryCopies(i)
                 /\ \E only \in SUBSET {PrimaryOnly} :
                      primary = {copy[i] : i \in inPrimary} \cup only
    /\ pageSize \in 1 .. MaxPageSize
    /\ pagingProgress \in 1 .. MaxProgress
    /\ integrityProgress \in 1 .. MaxProgress
    /\ faults = 0

\* scenarios S1 and S2 of the specification: 12 revisions, pages of 5; and
\* the same revisions in pages of 1, which makes more than ten pages
InitScenario ==
    /\ secondary = {SecondaryCopy(i) : i \in 1 .. 12}
    /\ primary \in {{}, {SecondaryCopy(i) : i \in 1 .. 5}}
    /\ pageSize \in {1, 5}
    /\ pagingProgress \in {1, 2}
    /\ integrityProgress = 1
    /\ faults = MaxFaults

Init ==
    /\ InitProcess
    /\ (InitSmall \/ InitScenario)
    /\ SchedulingAtRest
    /\ UpdaterAtRest
    /\ ConcurrencyAtRest

\* ------------------------------------------------------------ fault model
\* An awaited call may throw and the task may be cancelled; MaxFaults bounds
\* how often that happens.
Throws ==
    /\ faults < MaxFaults
    /\ faults' = faults + 1

Returns == faults' = faults

\* an exception that no try block of execute catches
Escapes ==
    /\ pc' = "threw"
    /\ result' = result

Call(name) == calls' = calls \cup {name}

\* updateTransitionStatus (lines 289-298)
updateTransitionStatus(status) ==
    /\ published' = Append(published, status)
    /\ Call("publisher.publish")

\* ------------------------------------------------------------------ execute
\* positions at which a page has its cursor stored: from the read of the page
\* (lines 138, 244) to the end of its revision loop
MigrationPageSteps ==
    {"findByUserUuidForMigration", "findOneByUuidForMigration", "removeOneByUuid",
     "allowForPrimaryDatabaseToCatchUpAfterRemove", "insert"}

IntegrityPageSteps == {"findByUserUuidForIntegrity", "findOneByUuidForIntegrity"}

PhaseOf(position) ==
    IF position \in MigrationPageSteps THEN "migration"
    ELSE IF position \in IntegrityPageSteps THEN "integrity"
    ELSE "none"

\* seeded fault: the configuration and the user uuid are not checked
execute_ConfigurationNotChecked ==
    /\ pc \in {"idle", "done", "threw", "crashed"}
    /\ previous' = IF pc = "idle" THEN NoPrevious
                   ELSE [end |-> pc,
                         phase |-> PhaseOf(crashedAt),
                         page |-> IF PhaseOf(crashedAt) = "none" THEN 0 ELSE currentPage,
                         last |-> IF published = <<>> THEN "none" ELSE Last(published)]
    /\ atStart' = [secondary |-> secondary, primary |-> primary,
                   paging |-> pagingProgress, integrity |-> integrityProgress]
    /\ pc' = "isAlreadyMigrated"
    /\ result' = NoResult
    /\ currentPage' = 0
    /\ totalPages' = 0
    /\ secondaryCount' = 0
    /\ revisions' = <<>>
    /\ error' = ""
    /\ published' = <<>>
    /\ calls' = {}
    /\ fetched' = <<>>
    /\ errorLog' = {}
    /\ crashedAt' = "none"
    /\ UNCHANGED <<stores, progress, pageSize, config, faults>>
    /\ UNCHANGED <<scheduling, updater, concurrency>>

\* lines 24-39: the configuration and the user uuid are checked first
execute ==
    /\ pc \in {"idle", "done", "threw", "crashed"}
    /\ previous' = IF pc = "idle" THEN NoPrevious
                   ELSE [end |-> pc,
                         phase |-> PhaseOf(crashedAt),
                         page |-> IF PhaseOf(crashedAt) = "none" THEN 0 ELSE currentPage,
                         last |-> IF published = <<>> THEN "none" ELSE Last(published)]
    /\ atStart' = [secondary |-> secondary, primary |-> primary,
                   paging |-> pagingProgress, integrity |-> integrityProgress]
    /\ IF config = "ok"
       THEN pc' = "isAlreadyMigrated" /\ result' = NoResult
       ELSE pc' = "done" /\ result' = ResultFail(config)
    /\ currentPage' = 0
    /\ totalPages' = 0
    /\ secondaryCount' = 0
    /\ revisions' = <<>>
    /\ error' = ""
    /\ published' = <<>>
    /\ calls' = {}
    /\ fetched' = <<>>
    /\ errorLog' = {}
    /\ crashedAt' = "none"
    /\ UNCHANGED <<stores, progress, pageSize, config, faults>>
    /\ UNCHANGED <<scheduling, updater, concurrency>>

\* seeded fault: the count is never taken to be zero
isAlreadyMigrated_NeverMigrated ==
    /\ pc = "isAlreadyMigrated"
    /\ Call("secondary.countByUserUuid")
    /\ \/ /\ Returns
          /\ pc' = "publishInProgress"
          /\ result' = result
       \/ Throws /\ Escapes
    /\ UNCHANGED <<stores, progress, locals, published, fetched, errorLog, context>>
    /\ UNCHANGED <<scheduling, updater, concurrency>>

\* lines 41 and 300-312
isAlreadyMigrated ==
    /\ pc = "isAlreadyMigrated"
    /\ Call("secondary.countByUserUuid")
    /\ \/ /\ Returns
          /\ pc' = IF countByUserUuid(secondary) = 0
                   THEN "publishVerifiedAlreadyMigrated"
                   ELSE "publishInProgress"
          /\ result' = result
       \/ Throws /\ Escapes
    /\ UNCHANGED <<stores, progress, locals, published, fetched, errorLog, context>>
    /\ UNCHANGED <<scheduling, updater, concurrency>>

\* lines 44-46
publishVerifiedAlreadyMigrated ==
    /\ pc = "publishVerifiedAlreadyMigrated"
    /\ \/ /\ Returns
          /\ updateTransitionStatus(Verified)
          /\ pc' = "done"
          /\ result' = ResultOk
       \/ Throws /\ Escapes /\ Call("publisher.publish") /\ published' = published
    /\ UNCHANGED <<stores, progress, locals, fetched, errorLog, context>>
    /\ UNCHANGED <<scheduling, updater, concurrency>>

\* line 49
publishInProgress ==
    /\ pc = "publishInProgress"
    /\ \/ /\ Returns
          /\ updateTransitionStatus(InProgress)
          /\ pc' = "getPagingProgress"
          /\ result' = result
       \/ Throws /\ Escapes /\ Call("publisher.publish") /\ published' = published
    /\ UNCHANGED <<stores, progress, locals, fetched, errorLog, context>>
    /\ UNCHANGED <<scheduling, updater, concurrency>>

\* ------------------------------------------------- migrateRevisionsForUser
\* lines 187-189 and 56: the catch of migrateRevisionsForUser
MigrationErrored ==
    /\ error' = "Errored when migrating revisions for user"
    /\ pc' = "publishFailedMigration"

\* seeded fault: the loop test is currentPage < totalPages
MigrationPagePc_OffByOne(page, total) ==
    IF page >= total THEN "allowForPrimaryDatabaseToCatchUp"
    ELSE IF page % Ceil(total, 10) = 0 THEN "publishKeepAlive"
    ELSE "setPagingProgress"

\* seeded fault: the status is re-published for every tenth page
MigrationPagePc_EveryTenthPage(page, total) ==
    IF page > total THEN "allowForPrimaryDatabaseToCatchUp"
    ELSE IF page % 10 = 0 THEN "publishKeepAlive"
    ELSE "setPagingProgress"

\* lines 116-125: the loop test and the keep-alive test for one page
MigrationPagePc(page, total) ==
    IF page > total THEN "allowForPrimaryDatabaseToCatchUp"
    ELSE IF page % Ceil(total, 10) = 0 THEN "publishKeepAlive"
    ELSE "setPagingProgress"

\* seeded fault: the migration starts at page 1 whatever the stored cursor is
getPagingProgress_FromFirstPage ==
    /\ pc = "getPagingProgress"
    /\ Call("transition.getPagingProgress")
    /\ \/ /\ Returns
          /\ currentPage' = 1
          /\ pc' = "countSecondaryForMigration"
          /\ error' = error
       \/ Throws /\ MigrationErrored /\ currentPage' = currentPage
    /\ UNCHANGED <<stores, progress, totalPages, secondaryCount, revisions, result,
                   published, fetched, errorLog, context>>
    /\ UNCHANGED <<scheduling, updater, concurrency>>

\* line 106
getPagingProgress ==
    /\ pc = "getPagingProgress"
    /\ Call("transition.getPagingProgress")
    /\ \/ /\ Returns
          /\ currentPage' = pagingProgress
          /\ pc' = "countSecondaryForMigration"
          /\ error' = error
       \/ Throws /\ MigrationErrored /\ currentPage' = currentPage
    /\ UNCHANGED <<stores, progress, totalPages, secondaryCount, revisions, result,
                   published, fetched, errorLog, context>>
    /\ UNCHANGED <<scheduling, updater, concurrency>>

\* lines 112-116
countSecondaryForMigration ==
    /\ pc = "countSecondaryForMigration"
    /\ Call("secondary.countByUserUuid")
    /\ \/ /\ Returns
          /\ totalPages' = Ceil(countByUserUuid(secondary), pageSize)
          /\ pc' = MigrationPagePc(currentPage, Ceil(countByUserUuid(secondary), pageSize))
          /\ error' = error
       \/ Throws /\ MigrationErrored /\ totalPages' = totalPages
    /\ UNCHANGED <<stores, progress, currentPage, secondaryCount, revisions, result,
                   published, fetched, errorLog, context>>
    /\ UNCHANGED <<scheduling, updater, concurrency>>

\* lines 117-125
publishKeepAlive ==
    /\ pc = "publishKeepAlive"
    /\ \/ /\ Returns
          /\ updateTransitionStatus(InProgress)
          /\ pc' = "setPagingProgress"
          /\ error' = error
       \/ Throws /\ MigrationErrored /\ Call("publisher.publish") /\ published' = published
    /\ UNCHANGED <<stores, progress, currentPage, totalPages, secondaryCount, revisions,
                   result, fetched, errorLog, context>>
    /\ UNCHANGED <<scheduling, updater, concurrency>>

\* seeded fault: the page bound is read again for every page
setPagingProgress_BoundReadAgain ==
    /\ pc = "setPagingProgress"
    /\ Call("transition.setPagingProgress")
    /\ \/ /\ Returns
          /\ pagingProgress' = currentPage
          /\ totalPages' = Ceil(countByUserUuid(secondary), pageSize)
          /\ pc' = "findByUserUuidForMigration"
          /\ error' = error
       \/ Throws /\ MigrationErrored /\ pagingProgress' = pagingProgress
                 /\ totalPages' = totalPages
    /\ UNCHANGED <<stores, integrityProgress, currentPage, secondaryCount,
                   revisions, result, published, fetched, errorLog, context>>
    /\ UNCHANGED <<scheduling, updater, concurrency>>

\* seeded fault: the cursor is not stored before the page is read
setPagingProgress_NotStored ==
    /\ pc = "setPagingProgress"
    /\ Call("transition.setPagingProgress")
    /\ \/ /\ Returns
          /\ pagingProgress' = pagingProgress
          /\ pc' = "findByUserUuidForMigration"
          /\ error' = error
       \/ Throws /\ MigrationErrored /\ pagingProgress' = pagingProgress
    /\ UNCHANGED <<stores, integrityProgress, currentPage, totalPages, secondaryCount,
                   revisions, result, published, fetched, errorLog, context>>
    /\ UNCHANGED <<scheduling, updater, concurrency>>

\* lines 127-130
setPagingProgress ==
    /\ pc = "setPagingProgress"
    /\ Call("transition.setPagingProgress")
    /\ \/ /\ Returns
          /\ pagingProgress' = currentPage
          /\ pc' = "findByUserUuidForMigration"
          /\ error' = error
       \/ Throws /\ MigrationErrored /\ pagingProgress' = pagingProgress
    /\ UNCHANGED <<stores, integrityProgress, currentPage, totalPages, secondaryCount,
                   revisions, result, published, fetched, errorLog, context>>
    /\ UNCHANGED <<scheduling, updater, concurrency>>

\* the page read at lines 132-138 and 238-244
PageRead(phase) ==
    [phase |-> phase, page |-> currentPage,
     offset |-> (currentPage - 1) * pageSize, limit |-> pageSize]

\* lines 139 and 116: the revision loop of a page, then the next page
MigrationContinuesWith(rest) ==
    /\ revisions' = rest
    /\ IF rest # <<>>
       THEN /\ pc' = "findOneByUuidForMigration"
            /\ currentPage' = currentPage
       ELSE /\ pc' = MigrationPagePc(currentPage + 1, totalPages)
            /\ currentPage' = currentPage + 1

\* lines 132-139
findByUserUuidForMigration ==
    /\ pc = "findByUserUuidForMigration"
    /\ Call("secondary.findByUserUuid")
    /\ \/ /\ Returns
          /\ fetched' = Append(fetched, PageRead("migration"))
          /\ MigrationContinuesWith(
                findByUserUuid(secondary, (currentPage - 1) * pageSize, pageSize))
          /\ error' = error
       \/ /\ Throws
          /\ MigrationErrored
          /\ UNCHANGED <<fetched, revisions, currentPage>>
    /\ UNCHANGED <<stores, progress, totalPages, secondaryCount, result, published,
                   errorLog, context>>
    /\ UNCHANGED <<scheduling, updater, concurrency>>

\* seeded fault: an exception in the revision loop ends the migration phase
RevisionErrored_Aborts ==
    /\ errorLog' = errorLog \cup {"Errored when saving revision to primary database"}
    /\ pc' = "publishFailedMigration"
    /\ UNCHANGED <<revisions, currentPage>>

\* lines 178-182: the catch inside the revision loop
RevisionErrored ==
    /\ errorLog' = errorLog \cup {"Errored when saving revision to primary database"}
    /\ MigrationContinuesWith(Tail(revisions))

\* seeded fault: a primary copy with a greater updatedAt is not skipped
findOneByUuidForMigration_NewerNotSkipped ==
    /\ pc = "findOneByUuidForMigration"
    /\ Call("primary.findOneByUuid")
    /\ \/ /\ Returns
          /\ LET revision == Head(revisions)
                 revisionInPrimary == findOneByUuid(primary, revision.id)
             IN IF revisionInPrimary = NoRevision
                THEN pc' = "insert" /\ UNCHANGED <<revisions, currentPage>>
                ELSE IF isIdenticalTo(revisionInPrimary, revision)
                THEN MigrationContinuesWith(Tail(revisions))
                ELSE pc' = "removeOneByUuid" /\ UNCHANGED <<revisions, currentPage>>
          /\ errorLog' = errorLog
       \/ Throws /\ RevisionErrored
    /\ UNCHANGED <<stores, progress, totalPages, secondaryCount, error, result,
                   published, fetched, context>>
    /\ UNCHANGED <<scheduling, updater, concurrency>>

\* lines 141-166
findOneByUuidForMigration ==
    /\ pc = "findOneByUuidForMigration"
    /\ Call("primary.findOneByUuid")
    /\ \/ /\ Returns
          /\ LET revision == Head(revisions)
                 revisionInPrimary == findOneByUuid(primary, revision.id)
             IN IF revisionInPrimary = NoRevision
                THEN pc' = "insert" /\ UNCHANGED <<revisions, currentPage>>
                ELSE IF revisionInPrimary.updatedAt > revision.updatedAt
                THEN MigrationContinuesWith(Tail(revisions))
                ELSE IF isIdenticalTo(revisionInPrimary, revision)
                THEN MigrationContinuesWith(Tail(revisions))
                ELSE pc' = "removeOneByUuid" /\ UNCHANGED <<revisions, currentPage>>
          /\ errorLog' = errorLog
       \/ Throws /\ RevisionErrored
    /\ UNCHANGED <<stores, progress, totalPages, secondaryCount, error, result,
                   published, fetched, context>>
    /\ UNCHANGED <<scheduling, updater, concurrency>>

\* seeded fault: the insert follows the removal without the sleep
removeOneByUuidFromPrimary_NoCatchUp ==
    /\ pc = "removeOneByUuid"
    /\ Call("primary.removeOneByUuid")
    /\ \/ /\ Returns
          /\ primary' = removeOneByUuid(primary, Head(revisions).id)
          /\ pc' = "insert"
          /\ UNCHANGED <<revisions, currentPage, errorLog>>
       \/ Throws /\ RevisionErrored /\ primary' = primary
    /\ UNCHANGED <<secondary, progress, totalPages, secondaryCount, error, result,
                   published, fetched, context>>
    /\ UNCHANGED <<scheduling, updater, concurrency>>

\* lines 167-170
removeOneByUuidFromPrimary ==
    /\ pc = "removeOneByUuid"
    /\ Call("primary.removeOneByUuid")
    /\ \/ /\ Returns
          /\ primary' = removeOneByUuid(primary, Head(revisions).id)
          /\ pc' = "allowForPrimaryDatabaseToCatchUpAfterRemove"
          /\ UNCHANGED <<revisions, currentPage, errorLog>>
       \/ Throws /\ RevisionErrored /\ primary' = primary
    /\ UNCHANGED <<secondary, progress, totalPages, secondaryCount, error, result,
                   published, fetched, context>>
    /\ UNCHANGED <<scheduling, updater, concurrency>>

\* line 171
allowForPrimaryDatabaseToCatchUpAfterRemove ==
    /\ pc = "allowForPrimaryDatabaseToCatchUpAfterRemove"
    /\ Call("timer.sleep")
    /\ \/ /\ Returns
          /\ pc' = "insert"
          /\ UNCHANGED <<revisions, currentPage, errorLog>>
       \/ Throws /\ RevisionErrored
    /\ UNCHANGED <<stores, progress, totalPages, secondaryCount, error, result,
                   published, fetched, context>>
    /\ UNCHANGED <<scheduling, updater, concurrency>>

\* seeded fault: the revision is moved, not copied
insertIntoPrimary_Moved ==
    /\ pc = "insert"
    /\ Call("primary.insert")
    /\ \/ /\ Returns
          /\ primary' = insert(primary, Head(revisions))
          /\ secondary' = removeOneByUuid(secondary, Head(revisions).id)
          /\ MigrationContinuesWith(Tail(revisions))
          /\ errorLog' = errorLog
       \/ /\ Throws      \* didSave is false
          /\ UNCHANGED <<primary, secondary>>
          /\ MigrationContinuesWith(Tail(revisions))
          /\ errorLog' = errorLog \cup {"Failed to save revision to primary database"}
       \/ Throws /\ RevisionErrored /\ UNCHANGED <<primary, secondary>>
    /\ UNCHANGED <<progress, totalPages, secondaryCount, error, result,
                   published, fetched, context>>
    /\ UNCHANGED <<scheduling, updater, concurrency>>

\* lines 174-177
insertIntoPrimary ==
    /\ pc = "insert"
    /\ Call("primary.insert")
    /\ \/ /\ Returns
          /\ primary' = insert(primary, Head(revisions))
          /\ MigrationContinuesWith(Tail(revisions))
          /\ errorLog' = errorLog
       \/ /\ Throws      \* didSave is false
          /\ primary' = primary
          /\ MigrationContinuesWith(Tail(revisions))
          /\ errorLog' = errorLog \cup {"Failed to save revision to primary database"}
       \/ Throws /\ RevisionErrored /\ primary' = primary
    /\ UNCHANGED <<secondary, progress, totalPages, secondaryCount, error, result,
                   published, fetched, context>>
    /\ UNCHANGED <<scheduling, updater, concurrency>>

\* lines 56-60
publishFailedMigration ==
    /\ pc = "publishFailedMigration"
    /\ \/ /\ Returns
          /\ updateTransitionStatus(Failed)
          /\ pc' = "done"
          /\ result' = ResultFail(error)
       \/ Throws /\ Escapes /\ Call("publisher.publish") /\ published' = published
    /\ UNCHANGED <<stores, progress, locals, fetched, errorLog, context>>
    /\ UNCHANGED <<scheduling, updater, concurrency>>

\* line 64
allowForPrimaryDatabaseToCatchUp ==
    /\ pc = "allowForPrimaryDatabaseToCatchUp"
    /\ Call("timer.sleep")
    /\ \/ /\ Returns
          /\ pc' = "getIntegrityProgress"
          /\ result' = result
       \/ Throws /\ Escapes
    /\ UNCHANGED <<stores, progress, locals, published, fetched, errorLog, context>>
    /\ UNCHANGED <<scheduling, updater, concurrency>>

\* ------------------------- checkIntegrityBetweenPrimaryAndSecondaryDatabase
\* a failed integrityCheckResult: line 69 then goes on to line 70
IntegrityFailed(message) ==
    /\ error' = message
    /\ pc' = "resetPagingProgress"

\* lines 282-286: the catch of the integrity check
IntegrityErrored ==
    IntegrityFailed("Errored when checking integrity between primary and secondary database")

\* line 232: the loop test; when the loop ends the check is ok (lines 281, 69, 78)
IntegrityPagePc(page, total) ==
    IF page > total THEN "removeByUserUuid" ELSE "setIntegrityProgress"

\* line 214
getIntegrityProgress ==
    /\ pc = "getIntegrityProgress"
    /\ Call("transition.getIntegrityProgress")
    /\ \/ /\ Returns
          /\ currentPage' = integrityProgress
          /\ pc' = "countSecondaryForIntegrity"
          /\ error' = error
       \/ Throws /\ IntegrityErrored /\ currentPage' = currentPage
    /\ UNCHANGED <<stores, progress, totalPages, secondaryCount, revisions, result,
                   published, fetched, errorLog, context>>
    /\ UNCHANGED <<scheduling, updater, concurrency>>

\* lines 220-222
countSecondaryForIntegrity ==
    /\ pc = "countSecondaryForIntegrity"
    /\ Call("secondary.countByUserUuid")
    /\ \/ /\ Returns
          /\ secondaryCount' = countByUserUuid(secondary)
          /\ pc' = "countPrimaryForIntegrity"
          /\ error' = error
       \/ Throws /\ IntegrityErrored /\ secondaryCount' = secondaryCount
    /\ UNCHANGED <<stores, progress, currentPage, totalPages, revisions, result,
                   published, fetched, errorLog, context>>
    /\ UNCHANGED <<scheduling, updater, concurrency>>

\* lines 223-232
countPrimaryForIntegrity ==
    /\ pc = "countPrimaryForIntegrity"
    /\ Call("primary.countByUserUuid")
    /\ \/ /\ Returns
          /\ IF countByUserUuid(primary) < secondaryCount
             THEN /\ IntegrityFailed("Total revisions count in primary database does not match")
                  /\ totalPages' = totalPages
             ELSE /\ totalPages' = Ceil(countByUserUuid(primary), pageSize)
                  /\ pc' = IntegrityPagePc(currentPage, Ceil(countByUserUuid(primary), pageSize))
                  /\ error' = error
       \/ Throws /\ IntegrityErrored /\ totalPages' = totalPages
    /\ UNCHANGED <<stores, progress, currentPage, secondaryCount, revisions, result,
                   published, fetched, errorLog, context>>
    /\ UNCHANGED <<scheduling, updater, concurrency>>

\* lines 233-236
setIntegrityProgress ==
    /\ pc = "setIntegrityProgress"
    /\ Call("transition.setIntegrityProgress")
    /\ \/ /\ Returns
          /\ integrityProgress' = currentPage
          /\ pc' = "findByUserUuidForIntegrity"
          /\ error' = error
       \/ Throws /\ IntegrityErrored /\ integrityProgress' = integrityProgress
    /\ UNCHANGED <<stores, pagingProgress, currentPage, totalPages, secondaryCount,
                   revisions, result, published, fetched, errorLog, context>>
    /\ UNCHANGED <<scheduling, updater, concurrency>>

\* lines 246 and 232: the revision loop of a page, then the next page
IntegrityContinuesWith(rest) ==
    /\ revisions' = rest
    /\ error' = error
    /\ IF rest # <<>>
       THEN /\ pc' = "findOneByUuidForIntegrity"
            /\ currentPage' = currentPage
       ELSE /\ pc' = IntegrityPagePc(currentPage + 1, totalPages)
            /\ currentPage' = currentPage + 1

\* lines 238-246
findByUserUuidForIntegrity ==
    /\ pc = "findByUserUuidForIntegrity"
    /\ Call("secondary.findByUserUuid")
    /\ \/ /\ Returns
          /\ fetched' = Append(fetched, PageRead("integrity"))
          /\ IntegrityContinuesWith(
                findByUserUuid(secondary, (currentPage - 1) * pageSize, pageSize))
       \/ /\ Throws
          /\ IntegrityErrored
          /\ UNCHANGED <<fetched, revisions, currentPage>>
    /\ UNCHANGED <<stores, progress, totalPages, secondaryCount, result, published,
                   errorLog, context>>
    /\ UNCHANGED <<scheduling, updater, concurrency>>

\* seeded fault: a primary copy with an equal updatedAt is accepted unseen
findOneByUuidForIntegrity_SameTimeAccepted ==
    /\ pc = "findOneByUuidForIntegrity"
    /\ Call("primary.findOneByUuid")
    /\ \/ /\ Returns
          /\ LET revision == Head(revisions)
                 revisionInPrimary == findOneByUuid(primary, revision.id)
             IN IF revisionInPrimary = NoRevision
                THEN /\ IntegrityFailed("Revision not found in primary database")
                     /\ UNCHANGED <<revisions, currentPage>>
                ELSE IF revisionInPrimary.updatedAt >= revision.updatedAt
                THEN IntegrityContinuesWith(Tail(revisions))
                ELSE /\ IntegrityFailed("Revision is not identical in primary and secondary database")
                     /\ UNCHANGED <<revisions, currentPage>>
       \/ Throws /\ IntegrityErrored /\ UNCHANGED <<revisions, currentPage>>
    /\ UNCHANGED <<stores, progress, totalPages, secondaryCount, result, published,
                   fetched, errorLog, context>>
    /\ UNCHANGED <<scheduling, updater, concurrency>>

\* lines 247-278
findOneByUuidForIntegrity ==
    /\ pc = "findOneByUuidForIntegrity"
    /\ Call("primary.findOneByUuid")
    /\ \/ /\ Returns
          /\ LET revision == Head(revisions)
                 revisionInPrimary == findOneByUuid(primary, revision.id)
             IN IF revisionInPrimary = NoRevision
                THEN /\ IntegrityFailed("Revision not found in primary database")
                     /\ UNCHANGED <<revisions, currentPage>>
                ELSE IF revisionInPrimary.updatedAt > revision.updatedAt
                THEN IntegrityContinuesWith(Tail(revisions))
                ELSE IF isIdenticalTo(revision, revisionInPrimary)
                THEN IntegrityContinuesWith(Tail(revisions))
                ELSE /\ IntegrityFailed("Revision is not identical in primary and secondary database")
                     /\ UNCHANGED <<revisions, currentPage>>
       \/ Throws /\ IntegrityErrored /\ UNCHANGED <<revisions, currentPage>>
    /\ UNCHANGED <<stores, progress, totalPages, secondaryCount, result, published,
                   fetched, errorLog, context>>
    /\ UNCHANGED <<scheduling, updater, concurrency>>

\* ------------------------------------------------- execute, lines 69 to 101
\* seeded fault: the paging cursor is left as it is after a failed integrity check
resetPagingProgress_NotReset ==
    /\ pc = "resetPagingProgress"
    /\ Call("transition.setPagingProgress")
    /\ \/ /\ Returns
          /\ pagingProgress' = pagingProgress
          /\ pc' = "resetIntegrityProgress"
          /\ result' = result
       \/ Throws /\ Escapes /\ pagingProgress' = pagingProgress
    /\ UNCHANGED <<stores, integrityProgress, locals, published, fetched, errorLog, context>>
    /\ UNCHANGED <<scheduling, updater, concurrency>>

\* line 70
resetPagingProgress ==
    /\ pc = "resetPagingProgress"
    /\ Call("transition.setPagingProgress")
    /\ \/ /\ Returns
          /\ pagingProgress' = 1
          /\ pc' = "resetIntegrityProgress"
          /\ result' = result
       \/ Throws /\ Escapes /\ pagingProgress' = pagingProgress
    /\ UNCHANGED <<stores, integrityProgress, locals, published, fetched, errorLog, context>>
    /\ UNCHANGED <<scheduling, updater, concurrency>>

\* line 71
resetIntegrityProgress ==
    /\ pc = "resetIntegrityProgress"
    /\ Call("transition.setIntegrityProgress")
    /\ \/ /\ Returns
          /\ integrityProgress' = 1
          /\ pc' = "publishFailedIntegrity"
          /\ result' = result
       \/ Throws /\ Escapes /\ integrityProgress' = integrityProgress
    /\ UNCHANGED <<stores, pagingProgress, locals, published, fetched, errorLog, context>>
    /\ UNCHANGED <<scheduling, updater, concurrency>>

\* lines 73-75
publishFailedIntegrity ==
    /\ pc = "publishFailedIntegrity"
    /\ \/ /\ Returns
          /\ updateTransitionStatus(Failed)
          /\ pc' = "done"
          /\ result' = ResultFail(error)
       \/ Throws /\ Escapes /\ Call("publisher.publish") /\ published' = published
    /\ UNCHANGED <<stores, progress, locals, fetched, errorLog, context>>
    /\ UNCHANGED <<scheduling, updater, concurrency>>

\* lines 78-82 and 192-205
deleteRevisionsForUser ==
    /\ pc = "removeByUserUuid"
    /\ Call("secondary.removeByUserUuid")
    /\ \/ /\ Returns
          /\ secondary' = removeByUserUuid(secondary)
          /\ pc' = "publishVerified"
          /\ error' = error
       \/ /\ Throws
          /\ secondary' = secondary
          /\ pc' = "publishFailedCleanup"
          /\ error' = "Errored when deleting revisions for user"
    /\ UNCHANGED <<primary, progress, currentPage, totalPages, secondaryCount, revisions,
                   result, published, fetched, errorLog, context>>
    /\ UNCHANGED <<scheduling, updater, concurrency>>

\* lines 82-88: there is no return in this branch
publishFailedCleanup ==
    /\ pc = "publishFailedCleanup"
    /\ \/ /\ Returns
          /\ updateTransitionStatus(Failed)
          /\ errorLog' = errorLog \cup {"Failed to clean up secondary database revisions"}
          /\ pc' = "publishVerified"
          /\ result' = result
       \/ /\ Throws /\ Escapes /\ Call("publisher.publish")
          /\ UNCHANGED <<published, errorLog>>
    /\ UNCHANGED <<stores, progress, locals, fetched, context>>
    /\ UNCHANGED <<scheduling, updater, concurrency>>

\* lines 90-101
publishVerified ==
    /\ pc = "publishVerified"
    /\ \/ /\ Returns
          /\ updateTransitionStatus(Verified)
          /\ pc' = "done"
          /\ result' = ResultOk
       \/ Throws /\ Escapes /\ Call("publisher.publish") /\ published' = published
    /\ UNCHANGED <<stores, progress, locals, fetched, errorLog, context>>
    /\ UNCHANGED <<scheduling, updater, concurrency>>

\* ------------------------------------------------------------- environment
Running == pc \notin {"idle", "done", "threw", "crashed"}

\* the worker is cancelled or dies at a suspension point; the stores keep their state
crash ==
    /\ Running
    /\ Throws
    /\ pc' = "crashed"
    /\ crashedAt' = pc
    /\ UNCHANGED <<stores, progress, locals, history, pageSize, config, atStart,
                   previous, result>>
    /\ UNCHANGED <<scheduling, updater, concurrency>>

Next ==
    \/ execute
    \/ isAlreadyMigrated
    \/ publishVerifiedAlreadyMigrated
    \/ publishInProgress
    \/ getPagingProgress
    \/ countSecondaryForMigration
    \/ publishKeepAlive
    \/ setPagingProgress
    \/ findByUserUuidForMigration
    \/ findOneByUuidForMigration
    \/ removeOneByUuidFromPrimary
    \/ allowForPrimaryDatabaseToCatchUpAfterRemove
    \/ insertIntoPrimary
    \/ publishFailedMigration
    \/ allowForPrimaryDatabaseToCatchUp
    \/ getIntegrityProgress
    \/ countSecondaryForIntegrity
    \/ countPrimaryForIntegrity
    \/ setIntegrityProgress
    \/ findByUserUuidForIntegrity
    \/ findOneByUuidForIntegrity
    \/ resetPagingProgress
    \/ resetIntegrityProgress
    \/ publishFailedIntegrity
    \/ deleteRevisionsForUser
    \/ publishFailedCleanup
    \/ publishVerified
    \/ crash

Spec == Init /\ [][Next]_vars

\* ======================================================== scheduled task
\* requestTransition of the auth service (src/packages/auth/bin/transition.ts),
\* the TransitionStatus rows it reads and removes, and the transitions it
\* requests.  The revisions use case is followed through the positions of
\* execute at which it publishes a status or touches the progress cursors.
pageLimit == 100

\* the use case is constructed and never called
MigratorAtRest ==
    /\ InitProcess
    /\ config = "ok"
    /\ secondary = {}
    /\ primary = {}
    /\ pageSize = 1
    /\ pagingProgress = 1
    /\ integrityProgress = 1
    /\ faults = 0

\* rows left behind by earlier transitions
InitialTransitionStatuses ==
    {NoTransitionStatus} \cup
    {[status |-> s, pagingProgress |-> c[1], integrityProgress |-> c[2]] :
        s \in Statuses, c \in {<<1, 1>>, <<LaterPage, 1>>, <<LaterPage, LaterPage>>}}

SchedulerInit ==
    /\ MigratorAtRest
    /\ transitionStatuses \in [Pairs -> InitialTransitionStatuses]
    /\ usersWithTransitionRole \in SUBSET Users
    /\ attempts = [p \in Pairs |-> [n \in 1 .. MaxRuns |-> "none"]]
    /\ statusEvents = [p \in Pairs |-> <<>>]
    /\ scheduler = SchedulerIdle
    /\ everForced = FALSE
    /\ UpdaterAtRest
    /\ ConcurrencyAtRest

\* transitionStatusRepository.getStatus: the status of the row, or null
getStatus(user, type) == transitionStatuses[<<user, type>>].status

\* userRepository.findAllCreatedBetween: a page of the users of the window
findAllCreatedBetween(offset, limit) ==
    SubSeq([i \in 1 .. MaxUsers |-> i], offset + 1, Min(offset + limit, MaxUsers))

\* lines 66-71: the user is passed over
Skipped(user, itemsTransitionStatus, revisionsTransitionStatus) ==
    LET userHasTransitionRole == user \in usersWithTransitionRole
        bothTransitionStatusesAreVerified ==
            itemsTransitionStatus = Verified /\ revisionsTransitionStatus = Verified
    IN ~userHasTransitionRole /\ bothTransitionStatusesAreVerified

\* seeded fault: a transition that is InProgress is requested again without forceRun
Triggers_InProgressWithoutForce(status, forceRun) ==
    \/ status = Absent
    \/ status = Failed
    \/ status = InProgress

\* seeded fault: a transition without a status row is not requested
Triggers_NotWithoutRow(status, forceRun) ==
    \/ status = Failed
    \/ (status = InProgress /\ forceRun)

\* lines 79-83 and 97-101
Triggers(status, forceRun) ==
    \/ status = Absent
    \/ status = Failed
    \/ (status = InProgress /\ forceRun)

\* line 97, reached from line 78 or from line 95
RevisionsPc ==
    IF Triggers(scheduler.revisionsTransitionStatus, scheduler.forceRun)
    THEN "removeRevisions"
    ELSE "nextUser"

\* lines 35-48
requestTransition ==
    /\ scheduler.pc \in {"idle", "finished", "failed"}
    /\ scheduler.run < MaxRuns
    /\ \E forceRun \in BOOLEAN :
         /\ scheduler' = [SchedulerIdle EXCEPT !.pc = "countAllCreatedBetween",
                                               !.run = scheduler.run + 1,
                                               !.forceRun = forceRun]
         /\ everForced' = (everForced \/ forceRun)
    /\ UNCHANGED <<transitionStatuses, usersWithTransitionRole, attempts, statusEvents>>
    /\ UNCHANGED <<migrator, updater, concurrency>>

\* lines 38 and 50-52
countAllCreatedBetween ==
    /\ scheduler.pc = "countAllCreatedBetween"
    /\ LET usersCount == Cardinality(Users)
       IN scheduler' = [scheduler EXCEPT
                           !.totalPages = Ceil(usersCount, pageLimit),
                           !.currentPage = 1,
                           !.pc = IF 1 <= Ceil(usersCount, pageLimit)
                                  THEN "findAllCreatedBetween" ELSE "finished"]
    /\ UNCHANGED <<transitionStatuses, usersWithTransitionRole, attempts, statusEvents,
                   everForced>>
    /\ UNCHANGED <<migrator, updater, concurrency>>

\* lines 52 and 60: the next user of the page, else the next page, else the end
ContinueWith(users, page) ==
    IF users # <<>>
    THEN [scheduler EXCEPT !.users = users, !.currentPage = page,
                           !.pc = "getStatusItems",
                           !.itemsTransitionStatus = Absent,
                           !.revisionsTransitionStatus = Absent]
    ELSE [scheduler EXCEPT !.users = users, !.currentPage = page + 1,
                           !.pc = IF page + 1 <= scheduler.totalPages
                                  THEN "findAllCreatedBetween" ELSE "finished",
                           !.itemsTransitionStatus = Absent,
                           !.revisionsTransitionStatus = Absent]

\* lines 53-60
findAllCreatedBetweenPage ==
    /\ scheduler.pc = "findAllCreatedBetween"
    /\ scheduler' = ContinueWith(
          findAllCreatedBetween((scheduler.currentPage - 1) * pageLimit, pageLimit),
          scheduler.currentPage)
    /\ UNCHANGED <<transitionStatuses, usersWithTransitionRole, attempts, statusEvents,
                   everForced>>
    /\ UNCHANGED <<migrator, updater, concurrency>>

\* line 61
getStatusItems ==
    /\ scheduler.pc = "getStatusItems"
    /\ scheduler' = [scheduler EXCEPT
                        !.itemsTransitionStatus = getStatus(Head(scheduler.users), "items"),
                        !.pc = "getStatusRevisions"]
    /\ UNCHANGED <<transitionStatuses, usersWithTransitionRole, attempts, statusEvents,
                   everForced>>
    /\ UNCHANGED <<migrator, updater, concurrency>>

\* line 62
getStatusRevisions ==
    /\ scheduler.pc = "getStatusRevisions"
    /\ scheduler' = [scheduler EXCEPT
                        !.revisionsTransitionStatus =
                            getStatus(Head(scheduler.users), "revisions"),
                        !.pc = "userRoles"]
    /\ UNCHANGED <<transitionStatuses, usersWithTransitionRole, attempts, statusEvents,
                   everForced>>
    /\ UNCHANGED <<migrator, updater, concurrency>>

\* lines 64-83
userRoles ==
    /\ scheduler.pc = "userRoles"
    /\ scheduler' = [scheduler EXCEPT !.pc =
          IF Skipped(Head(scheduler.users), scheduler.itemsTransitionStatus,
                     scheduler.revisionsTransitionStatus)
          THEN "nextUser"
          ELSE IF Triggers(scheduler.itemsTransitionStatus, scheduler.forceRun)
          THEN "removeItems"
          ELSE RevisionsPc]
    /\ UNCHANGED <<transitionStatuses, usersWithTransitionRole, attempts, statusEvents,
                   everForced>>
    /\ UNCHANGED <<migrator, updater, concurrency>>

\* transitionStatusRepository.remove: the status and both cursors go together
remove(user, type) ==
    transitionStatuses' = [transitionStatuses EXCEPT ![<<user, type>>] = NoTransitionStatus]

\* domainEventPublisher.publish of a TransitionRequested event
publishTransitionRequested(user, type) ==
    attempts' = [attempts EXCEPT ![<<user, type>>][scheduler.run] = "requested"]

\* line 84
removeItems ==
    /\ scheduler.pc = "removeItems"
    /\ remove(Head(scheduler.users), "items")
    /\ scheduler' = [scheduler EXCEPT !.pc = "publishItems"]
    /\ UNCHANGED <<usersWithTransitionRole, attempts, statusEvents, everForced>>
    /\ UNCHANGED <<migrator, updater, concurrency>>

\* lines 86-97
publishItems ==
    /\ scheduler.pc = "publishItems"
    /\ publishTransitionRequested(Head(scheduler.users), "items")
    /\ scheduler' = [scheduler EXCEPT !.pc = RevisionsPc]
    /\ UNCHANGED <<transitionStatuses, usersWithTransitionRole, statusEvents, everForced>>
    /\ UNCHANGED <<migrator, updater, concurrency>>

\* line 102
removeRevisions ==
    /\ scheduler.pc = "removeRevisions"
    /\ remove(Head(scheduler.users), "revisions")
    /\ scheduler' = [scheduler EXCEPT !.pc = "publishRevisions"]
    /\ UNCHANGED <<usersWithTransitionRole, attempts, statusEvents, everForced>>
    /\ UNCHANGED <<migrator, updater, concurrency>>

\* lines 104-113
publishRevisions ==
    /\ scheduler.pc = "publishRevisions"
    /\ publishTransitionRequested(Head(scheduler.users), "revisions")
    /\ scheduler' = [scheduler EXCEPT !.pc = "nextUser"]
    /\ UNCHANGED <<transitionStatuses, usersWithTransitionRole, statusEvents, everForced>>
    /\ UNCHANGED <<migrator, updater, concurrency>>

\* lines 60 and 52: the loops step
nextUser ==
    /\ scheduler.pc = "nextUser"
    /\ scheduler' = ContinueWith(Tail(scheduler.users), scheduler.currentPage)
    /\ UNCHANGED <<transitionStatuses, usersWithTransitionRole, attempts, statusEvents,
                   everForced>>
    /\ UNCHANGED <<migrator, updater, concurrency>>

\* the positions of requestTransition at which a call is awaited
AwaitingSteps ==
    {"countAllCreatedBetween", "findAllCreatedBetween", "getStatusItems",
     "getStatusRevisions", "userRoles", "removeItems", "publishItems",
     "removeRevisions", "publishRevisions"}

\* lines 161-169: the awaited call throws (or the process dies) and the run ends
requestTransitionFails ==
    /\ scheduler.pc \in AwaitingSteps
    /\ scheduler' = [scheduler EXCEPT !.pc = "failed"]
    /\ UNCHANGED <<transitionStatuses, usersWithTransitionRole, attempts, statusEvents,
                   everForced>>
    /\ UNCHANGED <<migrator, updater, concurrency>>

\* ---------------------------------------- the requested revisions transitions
\* The TransitionRequested event of run n for (user, revisions) is delivered
\* and execute runs for the user.  Only the steps of execute that publish a
\* status or touch the progress cursors are kept; what the stores hold decides
\* between them, so here every outcome is possible.
RevisionsPairs == {p \in Pairs : p[2] = "revisions"}

SetPhase(p, n, phase) == attempts' = [attempts EXCEPT ![p][n] = phase]

\* updateTransitionStatus (lines 289-298): the events of (user, type) in order
publishStatuses(p, statuses) ==
    statusEvents' = [statusEvents EXCEPT ![p] = @ \o statuses]

\* the event is delivered and execute is called (lines 24-41)
handleTransitionRequested(p, n) ==
    /\ attempts[p][n] = "requested"
    /\ SetPhase(p, n, "started")
    /\ UNCHANGED <<transitionStatuses, usersWithTransitionRole, statusEvents, scheduler,
                   everForced>>
    /\ UNCHANGED <<migrator, updater, concurrency>>

\* lines 41-46: the short-circuit
attemptAlreadyMigrated(p, n) ==
    /\ attempts[p][n] = "started"
    /\ publishStatuses(p, <<Verified>>)
    /\ SetPhase(p, n, "over")
    /\ UNCHANGED <<transitionStatuses, usersWithTransitionRole, scheduler, everForced>>
    /\ UNCHANGED <<migrator, updater, concurrency>>

\* line 49
attemptPublishInProgress(p, n) ==
    /\ attempts[p][n] = "started"
    /\ publishStatuses(p, <<InProgress>>)
    /\ SetPhase(p, n, "inProgress")
    /\ UNCHANGED <<transitionStatuses, usersWithTransitionRole, scheduler, everForced>>
    /\ UNCHANGED <<migrator, updater, concurrency>>

\* line 106: the paging cursor is read
attemptGetPagingProgress(p, n) ==
    /\ attempts[p][n] = "inProgress"
    /\ SetPhase(p, n, "migrating")
    /\ UNCHANGED <<transitionStatuses, usersWithTransitionRole, statusEvents, scheduler,
                   everForced>>
    /\ UNCHANGED <<migrator, updater, concurrency>>

\* lines 127-130: the paging cursor is written for a page
attemptSetPagingProgress(p, n) ==
    /\ attempts[p][n] = "migrating"
    /\ \E page \in 1 .. LaterPage :
         transitionStatuses' = [transitionStatuses EXCEPT ![p].pagingProgress = page]
    /\ UNCHANGED <<usersWithTransitionRole, attempts, statusEvents, scheduler, everForced>>
    /\ UNCHANGED <<migrator, updater, concurrency>>

\* lines 56-60: the migration phase failed
attemptMigrationFailed(p, n) ==
    /\ attempts[p][n] = "migrating"
    /\ publishStatuses(p, <<Failed>>)
    /\ SetPhase(p, n, "over")
    /\ UNCHANGED <<transitionStatuses, usersWithTransitionRole, scheduler, everForced>>
    /\ UNCHANGED <<migrator, updater, concurrency>>

\* lines 64 and 214: the integrity cursor is read
attemptGetIntegrityProgress(p, n) ==
    /\ attempts[p][n] = "migrating"
    /\ SetPhase(p, n, "checking")
    /\ UNCHANGED <<transitionStatuses, usersWithTransitionRole, statusEvents, scheduler,
                   everForced>>
    /\ UNCHANGED <<migrator, updater, concurrency>>

\* lines 233-236: the integrity cursor is written for a page
attemptSetIntegrityProgress(p, n) ==
    /\ attempts[p][n] = "checking"
    /\ \E page \in 1 .. LaterPage :
         transitionStatuses' = [transitionStatuses EXCEPT ![p].integrityProgress = page]
    /\ UNCHANGED <<usersWithTransitionRole, attempts, statusEvents, scheduler, everForced>>
    /\ UNCHANGED <<migrator, updater, concurrency>>

\* lines 69-75: the integrity check failed
attemptIntegrityFailed(p, n) ==
    /\ attempts[p][n] = "checking"
    /\ transitionStatuses' = [transitionStatuses EXCEPT ![p].pagingProgress = 1,
                                                        ![p].integrityProgress = 1]
    /\ publishStatuses(p, <<Failed>>)
    /\ SetPhase(p, n, "over")
    /\ UNCHANGED <<usersWithTransitionRole, scheduler, everForced>>
    /\ UNCHANGED <<migrator, updater, concurrency>>

\* lines 78-101: cleanup, then Verified; after a failed cleanup Failed comes first
attemptVerified(p, n) ==
    /\ attempts[p][n] = "checking"
    /\ \/ publishStatuses(p, <<Verified>>)
       \/ publishStatuses(p, <<Failed, Verified>>)
    /\ SetPhase(p, n, "over")
    /\ UNCHANGED <<transitionStatuses, usersWithTransitionRole, scheduler, everForced>>
    /\ UNCHANGED <<migrator, updater, concurrency>>

RunningPhases == {"started", "inProgress", "migrating", "checking"}

\* the worker dies, or an exception leaves execute
attemptStops(p, n) ==
    /\ attempts[p][n] \in RunningPhases
    /\ SetPhase(p, n, "over")
    /\ UNCHANGED <<transitionStatuses, usersWithTransitionRole, statusEvents, scheduler,
                   everForced>>
    /\ UNCHANGED <<migrator, updater, concurrency>>

\* the auth service stores the status of a TransitionStatusUpdated event
handleTransitionStatusUpdated(p) ==
    /\ statusEvents[p] # <<>>
    /\ transitionStatuses' = [transitionStatuses EXCEPT ![p].status = Head(statusEvents[p])]
    /\ statusEvents' = [statusEvents EXCEPT ![p] = Tail(@)]
    /\ UNCHANGED <<usersWithTransitionRole, attempts, scheduler, everForced>>
    /\ UNCHANGED <<migrator, updater, concurrency>>

SchedulerNext ==
    \/ requestTransition
    \/ countAllCreatedBetween
    \/ findAllCreatedBetweenPage
    \/ getStatusItems
    \/ getStatusRevisions
    \/ userRoles
    \/ removeItems
    \/ publishItems
    \/ removeRevisions
    \/ publishRevisions
    \/ nextUser
    \/ requestTransitionFails
    \/ \E p \in RevisionsPairs, n \in 1 .. MaxRuns : handleTransitionRequested(p, n)
    \/ \E p \in RevisionsPairs, n \in 1 .. MaxRuns : attemptAlreadyMigrated(p, n)
    \/ \E p \in RevisionsPairs, n \in 1 .. MaxRuns : attemptPublishInProgress(p, n)
    \/ \E p \in RevisionsPairs, n \in 1 .. MaxRuns : attemptGetPagingProgress(p, n)
    \/ \E p \in RevisionsPairs, n \in 1 .. MaxRuns : attemptSetPagingProgress(p, n)
    \/ \E p \in RevisionsPairs, n \in 1 .. MaxRuns : attemptMigrationFailed(p, n)
    \/ \E p \in RevisionsPairs, n \in 1 .. MaxRuns : attemptGetIntegrityProgress(p, n)
    \/ \E p \in RevisionsPairs, n \in 1 .. MaxRuns : attemptSetIntegrityProgress(p, n)
    \/ \E p \in RevisionsPairs, n \in 1 .. MaxRuns : attemptIntegrityFailed(p, n)
    \/ \E p \in RevisionsPairs, n \in 1 .. MaxRuns : attemptVerified(p, n)
    \/ \E p \in RevisionsPairs, n \in 1 .. MaxRuns : attemptStops(p, n)
    \/ \E p \in RevisionsPairs : handleTransitionStatusUpdated(p)

SchedulerSpec == SchedulerInit /\ [][SchedulerNext]_vars

\* ============================================================ item updater
\* UpdateExistingItem.execute of the syncing server, one call after another
\* on the same item.  The validation and every update rule is a step; the item
\* is updated in place, as the tests of the use case read it back from the
\* item they passed in.
UpdateFails(message) ==
    /\ updateResult' = ResultFail(message)
    /\ updaterPc' = "done"

\* the first validation that fails, in order, or Null
ValidationError(d) ==
    IF ~IsUuid(d.sessionUuid) \/ ~IsUuid(d.performingUserUuid)
    THEN "Given value is not a valid uuid"
    ELSE IF d.itemHash.content_type \notin ContentTypes
    THEN "Invalid content type"
    ELSE IF d.itemHash.duplicate_of # Null /\ ~IsUuid(d.itemHash.duplicate_of)
    THEN "Given value is not a valid uuid: duplicate_of"
    ELSE IF d.itemHash.created_at_timestamp = NoTimestamp /\ d.itemHash.created_at = Null
    THEN "Created at timestamp is required."
    ELSE IF d.itemHash.shared_vault_uuid # Null /\ ~IsUuid(d.itemHash.shared_vault_uuid)
    THEN "Given value is not a valid uuid: shared_vault_uuid"
    ELSE IF d.itemHash.key_system_identifier # Null
            /\ ~IsUuid(d.itemHash.key_system_identifier)
    THEN "Given value is not a valid uuid: key_system_identifier"
    ELSE Null

\* execute is called on the item as the last call left it, and validates its input
updateExistingItem ==
    /\ updaterPc = "idle"
    /\ \E d \in Dtos :
         /\ dto' = d
         /\ IF ValidationError(d) # Null
            THEN UpdateFails(ValidationError(d))
            ELSE /\ updaterPc' = "copyPayload"
                 /\ UNCHANGED updateResult
    /\ appliedAgain' = FALSE
    /\ UNCHANGED <<existingItem, saveCalls, publishedEvents, itemAtStart>>
    /\ UNCHANGED <<migrator, scheduling, concurrency>>

\* the payload of the hash, its deletion and its duplication
WithPayload(item, d) ==
    LET hash == d.itemHash
        copied == [item EXCEPT !.updatedWithSession = d.sessionUuid,
                               !.contentType = hash.content_type,
                               !.content = hash.content,
                               !.encItemKey = hash.enc_item_key,
                               !.authHash = hash.auth_hash,
                               !.itemsKeyId = hash.items_key_id]
    IN IF hash.deleted
       THEN [copied EXCEPT !.deleted = TRUE,
                           !.content = Null,
                           !.encItemKey = Null,
                           !.authHash = Null,
                           !.itemsKeyId = Null,
                           !.duplicateOf = Null]
       ELSE [copied EXCEPT !.duplicateOf = hash.duplicate_of]

copyPayload ==
    /\ updaterPc = "copyPayload"
    /\ existingItem' = WithPayload(existingItem, dto)
    /\ updaterPc' = "createTimestamps"
    /\ UNCHANGED <<dto, updateResult, saveCalls, publishedEvents, itemAtStart, appliedAgain>>
    /\ UNCHANGED <<migrator, scheduling, concurrency>>

\* seeded fault: a microsecond value is used whenever the hash carries it
TimestampsOf_EachFormAlone(hash) ==
    Timestamps(IF hash.created_at_timestamp # NoTimestamp
               THEN hash.created_at_timestamp
               ELSE convertStringDateToMicroseconds(hash.created_at),
               IF hash.updated_at_timestamp # NoTimestamp
               THEN hash.updated_at_timestamp
               ELSE convertStringDateToMicroseconds(hash.updated_at))

\* the timestamps of the hash in microseconds, or none when it has neither form
TimestampsOf(hash) ==
    IF hash.updated_at_timestamp # NoTimestamp /\ hash.created_at_timestamp # NoTimestamp
    THEN Timestamps(hash.created_at_timestamp, hash.updated_at_timestamp)
    ELSE IF hash.created_at # Null /\ hash.updated_at # Null
    THEN Timestamps(convertStringDateToMicroseconds(hash.created_at),
                    convertStringDateToMicroseconds(hash.updated_at))
    ELSE NoTimestamps

\* the dates and the timestamps are constructed, or their construction fails
createTimestamps ==
    /\ updaterPc = "createTimestamps"
    /\ \/ /\ TimestampsOf(dto.itemHash) # NoTimestamps
          /\ existingItem' = [existingItem EXCEPT !.timestamps = TimestampsOf(dto.itemHash)]
          /\ updaterPc' = "sharedVaultAssociation"
          /\ UNCHANGED updateResult
       \/ /\ \E message \in {"Could not create dates", "Could not create timestamps"} :
               UpdateFails(message)
          /\ UNCHANGED existingItem
    /\ UNCHANGED <<dto, saveCalls, publishedEvents, itemAtStart, appliedAgain>>
    /\ UNCHANGED <<migrator, scheduling, concurrency>>

\* seeded fault: an association is created whenever the hash names something
IsToBeAssociated_WheneverNamed(association, named) == named # Null

\* the hash names something the item is not associated with yet
IsToBeAssociated(association, named) ==
    named # Null /\ (association = NoAssociation \/ association.with # named)

updateSharedVaultAssociation ==
    /\ updaterPc = "sharedVaultAssociation"
    /\ IF IsToBeAssociated(existingItem.sharedVaultAssociation, dto.itemHash.shared_vault_uuid)
       THEN \/ /\ existingItem' =
                    [existingItem EXCEPT !.sharedVaultAssociation =
                        Association(NewId(existingItem.sharedVaultAssociation),
                                    dto.itemHash.shared_vault_uuid, dto.performingUserUuid)]
               /\ updaterPc' = "keySystemAssociation"
               /\ UNCHANGED updateResult
            \/ /\ UpdateFails("Could not create shared vault association")
               /\ UNCHANGED existingItem
       ELSE /\ updaterPc' = "keySystemAssociation"
            /\ UNCHANGED <<existingItem, updateResult>>
    /\ UNCHANGED <<dto, saveCalls, publishedEvents, itemAtStart, appliedAgain>>
    /\ UNCHANGED <<migrator, scheduling, concurrency>>

\* seeded fault: a key-system association is created whenever the hash names one
updateKeySystemAssociation_AlwaysCreated ==
    /\ updaterPc = "keySystemAssociation"
    /\ existingItem' =
          IF dto.itemHash.key_system_identifier = Null
          THEN existingItem
          ELSE [existingItem EXCEPT !.keySystemAssociation =
                   Association(NewId(existingItem.keySystemAssociation),
                               dto.itemHash.key_system_identifier, Null)]
    /\ updaterPc' = "save"
    /\ UNCHANGED <<dto, updateResult, saveCalls, publishedEvents, itemAtStart, appliedAgain>>
    /\ UNCHANGED <<migrator, scheduling, concurrency>>

updateKeySystemAssociation ==
    /\ updaterPc = "keySystemAssociation"
    /\ IF IsToBeAssociated(existingItem.keySystemAssociation, dto.itemHash.key_system_identifier)
       THEN \/ /\ existingItem' =
                    [existingItem EXCEPT !.keySystemAssociation =
                        Association(NewId(existingItem.keySystemAssociation),
                                    dto.itemHash.key_system_identifier, Null)]
               /\ updaterPc' = "save"
               /\ UNCHANGED updateResult
            \/ /\ UpdateFails("Could not create key system association")
               /\ UNCHANGED existingItem
       ELSE /\ updaterPc' = "save"
            /\ UNCHANGED <<existingItem, updateResult>>
    /\ UNCHANGED <<dto, saveCalls, publishedEvents, itemAtStart, appliedAgain>>
    /\ UNCHANGED <<migrator, scheduling, concurrency>>

\* itemRepository.save(existingItem)
save ==
    /\ updaterPc = "save"
    /\ saveCalls' = saveCalls + 1
    /\ updaterPc' = "publishRevision"
    /\ UNCHANGED <<existingItem, dto, updateResult, publishedEvents, itemAtStart, appliedAgain>>
    /\ UNCHANGED <<migrator, scheduling, concurrency>>

\* seeded fault: no DuplicateItemSynced for a hash that deletes the item
publishItemRevisionCreationRequested_NotForDeleted ==
    /\ updaterPc = "publishRevision"
    /\ publishedEvents' = Append(publishedEvents, "ItemRevisionCreationRequested")
    /\ IF dto.itemHash.duplicate_of # Null /\ ~dto.itemHash.deleted
       THEN /\ updaterPc' = "publishDuplicate"
            /\ UNCHANGED updateResult
       ELSE /\ updaterPc' = "done"
            /\ updateResult' = ResultOk
    /\ UNCHANGED <<existingItem, dto, saveCalls, itemAtStart, appliedAgain>>
    /\ UNCHANGED <<migrator, scheduling, concurrency>>

publishItemRevisionCreationRequested ==
    /\ updaterPc = "publishRevision"
    /\ publishedEvents' = Append(publishedEvents, "ItemRevisionCreationRequested")
    /\ IF dto.itemHash.duplicate_of # Null
       THEN /\ updaterPc' = "publishDuplicate"
            /\ UNCHANGED updateResult
       ELSE /\ updaterPc' = "done"
            /\ updateResult' = ResultOk
    /\ UNCHANGED <<existingItem, dto, saveCalls, itemAtStart, appliedAgain>>
    /\ UNCHANGED <<migrator, scheduling, concurrency>>

publishDuplicateItemSynced ==
    /\ updaterPc = "publishDuplicate"
    /\ publishedEvents' = Append(publishedEvents, "DuplicateItemSynced")
    /\ updaterPc' = "done"
    /\ updateResult' = ResultOk
    /\ UNCHANGED <<existingItem, dto, saveCalls, itemAtStart, appliedAgain>>
    /\ UNCHANGED <<migrator, scheduling, concurrency>>

\* the call has returned its result; the use case awaits the next call
returned ==
    /\ updaterPc = "done"
    /\ updaterPc' = "idle"
    /\ dto' = NoDto
    /\ updateResult' = NoResult
    /\ saveCalls' = 0
    /\ publishedEvents' = <<>>
    /\ itemAtStart' = existingItem
    /\ appliedAgain' = FALSE
    /\ UNCHANGED existingItem
    /\ UNCHANGED <<migrator, scheduling, concurrency>>

\* execute is called again with the input of the call that has just succeeded,
\* on the item as that call left it; the input passes the validation as before
updateExistingItemAgain ==
    /\ updaterPc = "done"
    /\ updateResult = ResultOk
    /\ ValidationError(dto) = Null
    /\ updaterPc' = "copyPayload"
    /\ updateResult' = NoResult
    /\ saveCalls' = 0
    /\ publishedEvents' = <<>>
    /\ itemAtStart' = existingItem
    /\ appliedAgain' = TRUE
    /\ UNCHANGED <<existingItem, dto>>
    /\ UNCHANGED <<migrator, scheduling, concurrency>>

\* the items the use case is called with first: the item of its tests or an
\* item deleted earlier, alone or already associated
UpdaterInit ==
    /\ MigratorAtRest
    /\ SchedulingAtRest
    /\ \E item \in {item1, deletedItem},
          sharedVault \in {NoAssociation, Association(1, "vault-1", PerformingUserUuid)},
          keySystem \in {NoAssociation, Association(1, "key-system-1", Null)} :
         existingItem = [item EXCEPT !.sharedVaultAssociation = sharedVault,
                                     !.keySystemAssociation = keySystem]
    /\ itemAtStart = existingItem
    /\ appliedAgain = FALSE
    /\ dto = NoDto
    /\ updaterPc = "idle"
    /\ updateResult = NoResult
    /\ saveCalls = 0
    /\ publishedEvents = <<>>
    /\ ConcurrencyAtRest

UpdaterNext ==
    \/ updateExistingItem
    \/ copyPayload
    \/ createTimestamps
    \/ updateSharedVaultAssociation
    \/ updateKeySystemAssociation
    \/ save
    \/ publishItemRevisionCreationRequested
    \/ publishDuplicateItemSynced
    \/ returned
    \/ updateExistingItemAgain

UpdaterSpec == UpdaterInit /\ [][UpdaterNext]_vars

\* ================================================== two calls for one user
\* execute is called twice for the same user and the two calls interleave at
\* their awaited calls.  Both work on the same two stores and the same two
\* cursors; each has its own locals.  No call throws here, and the status
\* publishes, which touch neither a store nor a cursor, are not kept as steps.
Attempts == {1, 2}

AttemptIdle ==
    [pc |-> "idle", currentPage |-> 0, totalPages |-> 0, secondaryCount |-> 0,
     revisions |-> <<>>, result |-> NoResult]

\* both calls are about to be made; the cursors are at their default
ConcurrentInit ==
    /\ MigratorAtRest
    /\ SchedulingAtRest
    /\ UpdaterAtRest
    /\ \E inSecondary \in SUBSET RevisionIds :
         \E inPrimary \in SUBSET inSecondary :
            \E copy \in [inPrimary -> UNION {PrimaryCopies(i) : i \in RevisionIds}] :
               /\ \A i \in inPrimary : copy[i] \in PrimaryCopies(i)
               /\ \E size \in 1 .. MaxPageSize :
                    shared = [secondary |-> {SecondaryCopy(i) : i \in inSecondary},
                              primary |-> {copy[i] : i \in inPrimary},
                              pagingProgress |-> 1,
                              integrityProgress |-> 1,
                              pageSize |-> size,
                              atStart |-> {SecondaryCopy(i) : i \in inSecondary}]
    /\ attempt = [a \in Attempts |-> AttemptIdle]

\* the call a goes on with these locals
Becomes(a, locals_) == attempt' = [attempt EXCEPT ![a] = locals_]

\* lines 24-41
executeBy(a) ==
    /\ attempt[a].pc = "idle"
    /\ Becomes(a, [AttemptIdle EXCEPT !.pc = "isAlreadyMigrated"])
    /\ UNCHANGED shared
    /\ UNCHANGED <<migrator, scheduling, updater>>

\* lines 41-49 and 300-312
isAlreadyMigratedBy(a) ==
    /\ attempt[a].pc = "isAlreadyMigrated"
    /\ Becomes(a, IF countByUserUuid(shared.secondary) = 0
                  THEN [attempt[a] EXCEPT !.pc = "done", !.result = ResultOk]
                  ELSE [attempt[a] EXCEPT !.pc = "getPagingProgress"])
    /\ UNCHANGED shared
    /\ UNCHANGED <<migrator, scheduling, updater>>

\* line 106
getPagingProgressBy(a) ==
    /\ attempt[a].pc = "getPagingProgress"
    /\ Becomes(a, [attempt[a] EXCEPT !.currentPage = shared.pagingProgress,
                                     !.pc = "countSecondaryForMigration"])
    /\ UNCHANGED shared
    /\ UNCHANGED <<migrator, scheduling, updater>>

\* lines 116-125 and 185: the loop test of the page loop
MigrationPagePcBy(page, total) ==
    IF page > total THEN "allowForPrimaryDatabaseToCatchUp" ELSE "setPagingProgress"

\* lines 112-116
countSecondaryForMigrationBy(a) ==
    /\ attempt[a].pc = "countSecondaryForMigration"
    /\ LET total == Ceil(countByUserUuid(shared.secondary), shared.pageSize)
       IN Becomes(a, [attempt[a] EXCEPT
                        !.totalPages = total,
                        !.pc = MigrationPagePcBy(attempt[a].currentPage, total)])
    /\ UNCHANGED shared
    /\ UNCHANGED <<migrator, scheduling, updater>>

\* lines 127-130
setPagingProgressBy(a) ==
    /\ attempt[a].pc = "setPagingProgress"
    /\ shared' = [shared EXCEPT !.pagingProgress = attempt[a].currentPage]
    /\ Becomes(a, [attempt[a] EXCEPT !.pc = "findByUserUuidForMigration"])
    /\ UNCHANGED <<migrator, scheduling, updater>>

\* lines 139 and 116: the revision loop of a page, then the next page
MigrationContinuesBy(a, rest) ==
    IF rest # <<>>
    THEN [attempt[a] EXCEPT !.revisions = rest, !.pc = "findOneByUuidForMigration"]
    ELSE [attempt[a] EXCEPT
            !.revisions = rest,
            !.currentPage = attempt[a].currentPage + 1,
            !.pc = MigrationPagePcBy(attempt[a].currentPage + 1, attempt[a].totalPages)]

\* lines 132-139
findByUserUuidForMigrationBy(a) ==
    /\ attempt[a].pc = "findByUserUuidForMigration"
    /\ Becomes(a, MigrationContinuesBy(a,
          findByUserUuid(shared.secondary,
                         (attempt[a].currentPage - 1) * shared.pageSize, shared.pageSize)))
    /\ UNCHANGED shared
    /\ UNCHANGED <<migrator, scheduling, updater>>

\* lines 141-165: what is done with the revision is decided on the copy read here
findOneByUuidForMigrationBy(a) ==
    /\ attempt[a].pc = "findOneByUuidForMigration"
    /\ LET revision == Head(attempt[a].revisions)
           revisionInPrimary == findOneByUuid(shared.primary, revision.id)
       IN Becomes(a,
            IF revisionInPrimary = NoRevision
            THEN [attempt[a] EXCEPT !.pc = "insert"]
            ELSE IF revisionInPrimary.updatedAt > revision.updatedAt
            THEN MigrationContinuesBy(a, Tail(attempt[a].revisions))
            ELSE IF isIdenticalTo(revision, revisionInPrimary)
            THEN MigrationContinuesBy(a, Tail(attempt[a].revisions))
            ELSE [attempt[a] EXCEPT !.pc = "removeOneByUuid"])
    /\ UNCHANGED shared
    /\ UNCHANGED <<migrator, scheduling, updater>>

\* lines 167-170
removeOneByUuidFromPrimaryBy(a) ==
    /\ attempt[a].pc = "removeOneByUuid"
    /\ shared' = [shared EXCEPT
                    !.primary = removeOneByUuid(@, Head(attempt[a].revisions).id)]
    /\ Becomes(a, [attempt[a] EXCEPT !.pc = "allowForPrimaryDatabaseToCatchUpAfterRemove"])
    /\ UNCHANGED <<migrator, scheduling, updater>>

\* line 171
allowForPrimaryDatabaseToCatchUpAfterRemoveBy(a) ==
    /\ attempt[a].pc = "allowForPrimaryDatabaseToCatchUpAfterRemove"
    /\ Becomes(a, [attempt[a] EXCEPT !.pc = "insert"])
    /\ UNCHANGED shared
    /\ UNCHANGED <<migrator, scheduling, updater>>

\* lines 174-177
insertIntoPrimaryBy(a) ==
    /\ attempt[a].pc = "insert"
    /\ shared' = [shared EXCEPT !.primary = insert(@, Head(attempt[a].revisions))]
    /\ Becomes(a, MigrationContinuesBy(a, Tail(attempt[a].revisions)))
    /\ UNCHANGED <<migrator, scheduling, updater>>

\* line 64
allowForPrimaryDatabaseToCatchUpBy(a) ==
    /\ attempt[a].pc = "allowForPrimaryDatabaseToCatchUp"
    /\ Becomes(a, [attempt[a] EXCEPT !.pc = "getIntegrityProgress"])
    /\ UNCHANGED shared
    /\ UNCHANGED <<migrator, scheduling, updater>>

\* line 214
getIntegrityProgressBy(a) ==
    /\ attempt[a].pc = "getIntegrityProgress"
    /\ Becomes(a, [attempt[a] EXCEPT !.currentPage = shared.integrityProgress,
                                     !.pc = "countSecondaryForIntegrity"])
    /\ UNCHANGED shared
    /\ UNCHANGED <<migrator, scheduling, updater>>

\* lines 220-222
countSecondaryForIntegrityBy(a) ==
    /\ attempt[a].pc = "countSecondaryForIntegrity"
    /\ Becomes(a, [attempt[a] EXCEPT !.secondaryCount = countByUserUuid(shared.secondary),
                                     !.pc = "countPrimaryForIntegrity"])
    /\ UNCHANGED shared
    /\ UNCHANGED <<migrator, scheduling, updater>>

\* lines 223-232
countPrimaryForIntegrityBy(a) ==
    /\ attempt[a].pc = "countPrimaryForIntegrity"
    /\ LET total == Ceil(countByUserUuid(shared.primary), shared.pageSize)
       IN Becomes(a,
            IF countByUserUuid(shared.primary) < attempt[a].secondaryCount
            THEN [attempt[a] EXCEPT !.pc = "resetPagingProgress"]
            ELSE [attempt[a] EXCEPT
                    !.totalPages = total,
                    !.pc = IntegrityPagePc(attempt[a].currentPage, total)])
    /\ UNCHANGED shared
    /\ UNCHANGED <<migrator, scheduling, updater>>

\* lines 233-236
setIntegrityProgressBy(a) ==
    /\ attempt[a].pc = "setIntegrityProgress"
    /\ shared' = [shared EXCEPT !.integrityProgress = attempt[a].currentPage]
    /\ Becomes(a, [attempt[a] EXCEPT !.pc = "findByUserUuidForIntegrity"])
    /\ UNCHANGED <<migrator, scheduling, updater>>

\* lines 246 and 232: the revision loop of a page, then the next page
IntegrityContinuesBy(a, rest) ==
    IF rest # <<>>
    THEN [attempt[a] EXCEPT !.revisions = rest, !.pc = "findOneByUuidForIntegrity"]
    ELSE [attempt[a] EXCEPT
            !.revisions = rest,
            !.currentPage = attempt[a].currentPage + 1,
            !.pc = IntegrityPagePc(attempt[a].currentPage + 1, attempt[a].totalPages)]

\* lines 238-246
findByUserUuidForIntegrityBy(a) ==
    /\ attempt[a].pc = "findByUserUuidForIntegrity"
    /\ Becomes(a, IntegrityContinuesBy(a,
          findByUserUuid(shared.secondary,
                         (attempt[a].currentPage - 1) * shared.pageSize, shared.pageSize)))
    /\ UNCHANGED shared
    /\ UNCHANGED <<migrator, scheduling, updater>>

\* lines 247-278
findOneByUuidForIntegrityBy(a) ==
    /\ attempt[a].pc = "findOneByUuidForIntegrity"
    /\ LET revision == Head(attempt[a].revisions)
           revisionInPrimary == findOneByUuid(shared.primary, revision.id)
       IN Becomes(a,
            IF revisionInPrimary = NoRevision
            THEN [attempt[a] EXCEPT !.pc = "resetPagingProgress"]
            ELSE IF revisionInPrimary.updatedAt > revision.updatedAt
            THEN IntegrityContinuesBy(a, Tail(attempt[a].revisions))
            ELSE IF isIdenticalTo(revision, revisionInPrimary)
            THEN IntegrityContinuesBy(a, Tail(attempt[a].revisions))
            ELSE [attempt[a] EXCEPT !.pc = "resetPagingProgress"])
    /\ UNCHANGED shared
    /\ UNCHANGED <<migrator, scheduling, updater>>

\* line 70
resetPagingProgressBy(a) ==
    /\ attempt[a].pc = "resetPagingProgress"
    /\ shared' = [shared EXCEPT !.pagingProgress = 1]
    /\ Becomes(a, [attempt[a] EXCEPT !.pc = "resetIntegrityProgress"])
    /\ UNCHANGED <<migrator, scheduling, updater>>

\* lines 71-75
resetIntegrityProgressBy(a) ==
    /\ attempt[a].pc = "resetIntegrityProgress"
    /\ shared' = [shared EXCEPT !.integrityProgress = 1]
    /\ Becomes(a, [attempt[a] EXCEPT
                     !.pc = "done",
                     !.result = ResultFail("integrity check failed")])
    /\ UNCHANGED <<migrator, scheduling, updater>>

\* lines 78-101 and 192-205
deleteRevisionsForUserBy(a) ==
    /\ attempt[a].pc = "removeByUserUuid"
    /\ shared' = [shared EXCEPT !.secondary = removeByUserUuid(@)]
    /\ Becomes(a, [attempt[a] EXCEPT !.pc = "done", !.result = ResultOk])
    /\ UNCHANGED <<migrator, scheduling, updater>>

ConcurrentNext ==
    \/ \E a \in Attempts : executeBy(a)
    \/ \E a \in Attempts : isAlreadyMigratedBy(a)
    \/ \E a \in Attempts : getPagingProgressBy(a)
    \/ \E a \in Attempts : countSecondaryForMigrationBy(a)
    \/ \E a \in Attempts : setPagingProgressBy(a)
    \/ \E a \in Attempts : findByUserUuidForMigrationBy(a)
    \/ \E a \in Attempts : findOneByUuidForMigrationBy(a)
    \/ \E a \in Attempts : removeOneByUuidFromPrimaryBy(a)
    \/ \E a \in Attempts : allowForPrimaryDatabaseToCatchUpAfterRemoveBy(a)
    \/ \E a \in Attempts : insertIntoPrimaryBy(a)
    \/ \E a \in Attempts : allowForPrimaryDatabaseToCatchUpBy(a)
    \/ \E a \in Attempts : getIntegrityProgressBy(a)
    \/ \E a \in Attempts : countSecondaryForIntegrityBy(a)
    \/ \E a \in Attempts : countPrimaryForIntegrityBy(a)
    \/ \E a \in Attempts : setIntegrityProgressBy(a)
    \/ \E a \in Attempts : findByUserUuidForIntegrityBy(a)
    \/ \E a \in Attempts : findOneByUuidForIntegrityBy(a)
    \/ \E a \in Attempts : resetPagingProgressBy(a)
    \/ \E a \in Attempts : resetIntegrityProgressBy(a)
    \/ \E a \in Attempts : deleteRevisionsForUserBy(a)

ConcurrentSpec == ConcurrentInit /\ [][ConcurrentNext]_vars

\* ============================================== attempts whose calls return
\* execute with every store call, publish and sleep returning: nothing throws
\* and no attempt is cancelled.  Other writers add revisions to either store
\* while an attempt runs.
RevisionPool == 1 .. MaxRev + 1

LiveInit ==
    /\ InitProcess
    /\ config = "ok"
    /\ \E inSecondary \in SUBSET RevisionIds :
         /\ secondary = {SecondaryCopy(i) : i \in inSecondary}
         /\ \E inPrimary \in SUBSET inSecondary :
              \E copy \in [inPrimary -> UNION {PrimaryCopies(i) : i \in RevisionIds}] :
                 /\ \A i \in inPrimary : copy[i] \in PrimaryCopies(i)
                 /\ primary = {copy[i] : i \in inPrimary}
    /\ pageSize \in 1 .. MaxPageSize
    /\ pagingProgress \in 1 .. MaxProgress
    /\ integrityProgress \in 1 .. MaxProgress
    /\ faults = MaxFaults
    /\ SchedulingAtRest
    /\ UpdaterAtRest
    /\ ConcurrencyAtRest

\* a revision that a store does not hold yet is written to it by someone else
revisionAdded ==
    /\ Running
    /\ \E i \in RevisionPool :
         \/ /\ \A r \in secondary : r.id # i
            /\ secondary' = insert(secondary, SecondaryCopy(i))
            /\ primary' = primary
         \/ /\ \A r \in primary : r.id # i
            /\ primary' = insert(primary, SecondaryCopy(i))
            /\ secondary' = secondary
    /\ UNCHANGED <<progress, locals, history, context, pc, result, faults>>
    /\ UNCHANGED <<scheduling, updater, concurrency>>

\* a step of the running attempt
AttemptStep ==
    /\ Running
    /\ \/ isAlreadyMigrated
       \/ publishVerifiedAlreadyMigrated
       \/ publishInProgress
       \/ getPagingProgress
       \/ countSecondaryForMigration
       \/ publishKeepAlive
       \/ setPagingProgress
       \/ findByUserUuidForMigration
       \/ findOneByUuidForMigration
       \/ removeOneByUuidFromPrimary
       \/ allowForPrimaryDatabaseToCatchUpAfterRemove
       \/ insertIntoPrimary
       \/ allowForPrimaryDatabaseToCatchUp
       \/ getIntegrityProgress
       \/ countSecondaryForIntegrity
       \/ countPrimaryForIntegrity
       \/ setIntegrityProgress
       \/ findByUserUuidForIntegrity
       \/ findOneByUuidForIntegrity
       \/ resetPagingProgress
       \/ resetIntegrityProgress
       \/ publishFailedIntegrity
       \/ deleteRevisionsForUser
       \/ publishVerified

\* one attempt from every initial content of the stores and the cursors
LiveNext ==
    \/ pc = "idle" /\ execute
    \/ AttemptStep
    \/ revisionAdded

\* an awaited call that returns lets the attempt go on
LiveSpec == LiveInit /\ [][LiveNext]_vars /\ WF_vars(AttemptStep)

\* ============================================================== properties
\* where the execute call is, or was when it was cancelled
Position == IF pc = "crashed" THEN crashedAt ELSE pc

IsMigrationPage(f) == f.phase = "migration"
IsIntegrityPage(f) == f.phase = "integrity"
FetchedForMigration == SelectSeq(fetched, IsMigrationPage)
FetchedForIntegrity == SelectSeq(fetched, IsIntegrityPage)

StatusPublished == Len(published') = Len(published) + 1

IntegrityDiagnostics ==
    {"Total revisions count in primary database does not match",
     "Revision not found in primary database",
     "Revision is not identical in primary and secondary database",
     "Errored when checking integrity between primary and secondary database"}

CleanupDiagnostic == "Errored when deleting revisions for user"

\* r has a copy in store that is identical or strictly newer
HasCopyIn(store, r) ==
    \E p \in store : p.id = r.id /\ (isIdenticalTo(p, r) \/ p.updatedAt > r.updatedAt)

\* ---------------------------------------------------------------------- C1
\* C1: whenever execute publishes Verified, the secondary store holds no
\* revision of the user at that moment, on every path through execute.
C1_VerifiedMeansSecondaryEmpty ==
    [][(StatusPublished /\ Last(published') = Verified) => secondary' = {}]_vars

\* ---------------------------------------------------------------------- C2
\* C2: if execute returns a success Result, then secondary is empty and every
\* revision that was in secondary when execute started has a copy in primary
\* that is identical or strictly newer (here for an attempt that starts with
\* both cursors at 1, as after the scheduler removed the status row).
C2_SuccessMeansMigrated ==
    (pc = "done" /\ result.kind = "ok" /\ atStart.paging = 1 /\ atStart.integrity = 1)
        => /\ secondary = {}
           /\ \A r \in atStart.secondary : HasCopyIn(primary, r)

\* ---------------------------------------------------------------------- C3
\* C3: an attempt that starts the main sequence publishes InProgress, then
\* only InProgress keep-alives, then exactly one terminal status: nothing is
\* published after a Verified or a Failed, and never both of them.
C3_StatusOrder ==
    (published # <<>> /\ published[1] = InProgress)
        => /\ \A i \in 1 .. Len(published) - 1 : published[i] = InProgress
           /\ pc = "done" => Last(published) \in {Verified, Failed}

\* ---------------------------------------------------------------------- C4
\* C4: when deleting the user's revisions from secondary fails, the failure
\* is logged and the last status the attempt publishes is Failed.
C4_CleanupFailureEndsFailed ==
    (pc = "done" /\ error = CleanupDiagnostic)
        => /\ "Failed to clean up secondary database revisions" \in errorLog
           /\ Last(published) = Failed

\* ---------------------------------------------------------------------- C5
\* C5: after a failed integrity check both cursors are written to 1 before
\* Failed is published: when Failed is about to be published and once it is
\* published both cursors are 1, the Result is the failure carrying the
\* integrity diagnostic, and secondary was not cleaned up.
C5_IntegrityFailureResetsBeforeFailed ==
    /\ (Position = "publishFailedIntegrity")
          => /\ pagingProgress = 1
             /\ integrityProgress = 1
             /\ Failed \notin {published[i] : i \in 1 .. Len(published)}
    /\ (error \in IntegrityDiagnostics /\ published # <<>> /\ Last(published) = Failed)
          => /\ pagingProgress = 1
             /\ integrityProgress = 1
             /\ pc = "done"
             /\ result = ResultFail(error)
             /\ "secondary.removeByUserUuid" \notin calls
             /\ secondary = atStart.secondary

\* an integrity failure after the paging cursor had moved past page 1
C5_Witness ==
    /\ pc = "done"
    /\ result.kind = "fail"
    /\ result.error = "Revision not found in primary database"
    /\ \E i \in 1 .. Len(fetched) : fetched[i].phase = "migration" /\ fetched[i].page > 1
    /\ Last(published) = Failed

\* ---------------------------------------------------------------------- C6
\* C6: if secondary holds no revision of the user when execute starts, the
\* attempt publishes exactly one status, Verified, returns success, makes no
\* call on the primary store and writes neither cursor.
C6_ShortCircuit ==
    (pc # "idle" /\ config = "ok" /\ atStart.secondary = {})
        => /\ calls \subseteq {"secondary.countByUserUuid", "publisher.publish"}
           /\ published \in {<<>>, <<Verified>>}
           /\ fetched = <<>>
           /\ primary = atStart.primary
           /\ pagingProgress = atStart.paging
           /\ integrityProgress = atStart.integrity
           /\ pc = "done" => (published = <<Verified>> /\ result = ResultOk)

C6_Witness ==
    /\ pc = "done"
    /\ config = "ok"
    /\ atStart.secondary = {}
    /\ primary # {}
    /\ pagingProgress > 1
    /\ published = <<Verified>>

\* ---------------------------------------------------------------------- C7
\* C7: after an attempt that ended by publishing Verified, the next execute
\* is a no-op: it takes the short-circuit, returns success, publishes
\* Verified again and writes nothing to primary, secondary or the cursors.
C7_RerunAfterVerifiedIsNoOp ==
    (previous.end = "done" /\ previous.last = Verified /\ config = "ok")
        => /\ calls \subseteq {"secondary.countByUserUuid", "publisher.publish"}
           /\ published \in {<<>>, <<Verified>>}
           /\ primary = atStart.primary
           /\ secondary = atStart.secondary
           /\ pagingProgress = atStart.paging
           /\ integrityProgress = atStart.integrity
           /\ pc = "done" => (published = <<Verified>> /\ result = ResultOk)

\* ---------------------------------------------------------------------- C8
\* C8: within an attempt every write of pagingProgress is greater than or equal
\* to the stored value, except the write of 1 after a failed integrity check.
C8_PagingProgressMonotone ==
    [][pagingProgress' < pagingProgress
          => (pagingProgress' = 1 /\ error \in IntegrityDiagnostics)]_vars

\* the cursor moved forward within the attempt
C8_Witness ==
    /\ pc = "findByUserUuidForMigration"
    /\ pagingProgress > atStart.paging
    /\ atStart.paging > 1

\* ---------------------------------------------------------------------- C9
\* C9: in both phases the cursor is stored before the page is read.  While page
\* P is read or processed the stored cursor is P, between two pages it is the
\* page read last, and only InProgress has been published; so an attempt
\* cancelled there leaves the cursor at P, and the resumed attempt starts at
\* P and reads page P first.
C9_CursorAtPage ==
    /\ Position \in MigrationPageSteps => pagingProgress = currentPage
    /\ Position \in MigrationPageSteps \ {"findByUserUuidForMigration"}
          => /\ FetchedForMigration # <<>>
             /\ Last(FetchedForMigration).page = currentPage
    /\ (Position \in {"publishKeepAlive", "setPagingProgress"} /\ FetchedForMigration # <<>>)
          => /\ pagingProgress = Last(FetchedForMigration).page
             /\ currentPage = pagingProgress + 1
    /\ Position \in IntegrityPageSteps => integrityProgress = currentPage
    /\ Position = "findOneByUuidForIntegrity"
          => /\ FetchedForIntegrity # <<>>
             /\ Last(FetchedForIntegrity).page = currentPage
    /\ (Position = "setIntegrityProgress" /\ FetchedForIntegrity # <<>>)
          => /\ integrityProgress = Last(FetchedForIntegrity).page
             /\ currentPage = integrityProgress + 1
    /\ Position \in MigrationPageSteps \cup IntegrityPageSteps
                      \cup {"publishKeepAlive", "setPagingProgress", "setIntegrityProgress"}
          => (published # <<>> /\ Last(published) = InProgress)

C9_ResumesAtPage ==
    /\ (previous.end = "crashed" /\ previous.phase = "migration")
          => /\ atStart.paging = previous.page
             /\ FetchedForMigration # <<>> => FetchedForMigration[1].page = previous.page
             /\ Position = "allowForPrimaryDatabaseToCatchUp" => FetchedForMigration # <<>>
    /\ (previous.end = "crashed" /\ previous.phase = "integrity")
          => /\ atStart.integrity = previous.page
             /\ FetchedForIntegrity # <<>> => FetchedForIntegrity[1].page = previous.page

C9_CursorBeforeFetch == C9_CursorAtPage /\ C9_ResumesAtPage

\* a resumed attempt processes the page during which the previous one was cancelled
C9_Witness ==
    /\ previous.end = "crashed"
    /\ previous.phase = "migration"
    /\ previous.page > 1
    /\ pc = "findOneByUuidForMigration"
    /\ currentPage = previous.page
    /\ Len(FetchedForMigration) = 1

\* --------------------------------------------------------------------- C10
PostMigrationSteps ==
    {"allowForPrimaryDatabaseToCatchUp", "getIntegrityProgress",
     "countSecondaryForIntegrity", "countPrimaryForIntegrity", "setIntegrityProgress",
     "findByUserUuidForIntegrity", "findOneByUuidForIntegrity", "removeByUserUuid"}

FetchedPages == [i \in 1 .. Len(FetchedForMigration) |-> FetchedForMigration[i].page]

\* C10: with P0 the stored pagingProgress and totalPages = ceil(count / pageSize)
\* at the start, the migration phase reads exactly the pages P0 .. totalPages of
\* secondary, each once and in increasing order, page P at offset
\* (P - 1) * pageSize with limit pageSize: one page when P0 = 1 and
\* pageSize >= count > 0, pages 2 and 3 (final pagingProgress 3) for 12
\* revisions, pageSize 5 and P0 = 2.
C10_PagesFetched ==
    LET P0 == atStart.paging
        count == Cardinality(atStart.secondary)
        total == Ceil(count, pageSize)
        pages == FetchedPages
    IN config = "ok"
        => /\ \A i \in 1 .. Len(pages) :
                /\ pages[i] = P0 + i - 1
                /\ pages[i] <= total
                /\ FetchedForMigration[i].offset = (pages[i] - 1) * pageSize
                /\ FetchedForMigration[i].limit = pageSize
           /\ Position \in PostMigrationSteps
                => /\ Len(pages) = (IF P0 > total THEN 0 ELSE total - P0 + 1)
                   /\ (P0 = 1 /\ pageSize >= count /\ count > 0) => pages = <<1>>
                   /\ (count = 12 /\ pageSize = 5 /\ P0 = 2) => pages = <<2, 3>>
           /\ (Position = "allowForPrimaryDatabaseToCatchUp"
                    /\ count = 12 /\ pageSize = 5 /\ P0 = 2)
                => pagingProgress = 3

\* scenario S2: 12 revisions, pages of 5, resumed at page 2
C10_Witness ==
    /\ Cardinality(atStart.secondary) = 12
    /\ pageSize = 5
    /\ atStart.paging = 2
    /\ pc = "getIntegrityProgress"
    /\ FetchedPages = <<2, 3>>
    /\ pagingProgress = 3

\* --------------------------------------------------------------------- C11
\* p is the authoritative copy of a revision that secondary also holds: its
\* updatedAt is strictly greater, or it is identical to the secondary copy
IsAuthoritativeOver(p, store) ==
    \E r \in store : r.id = p.id /\ (p.updatedAt > r.updatedAt \/ isIdenticalTo(p, r))

RewriteSteps == {"removeOneByUuid", "allowForPrimaryDatabaseToCatchUpAfterRemove", "insert"}

\* C11: the migration phase removes or inserts a revision only when primary has
\* no copy of it that is strictly newer than, or identical to, the secondary
\* copy; every primary revision that was newer or identical when the attempt
\* started is still in primary, unchanged, throughout and after the attempt.
C11_NewerOrIdenticalKept ==
    /\ \A p \in atStart.primary :
          IsAuthoritativeOver(p, atStart.secondary) => p \in primary
    /\ Position \in RewriteSteps => ~HasCopyIn(primary, Head(revisions))

\* an attempt that kept the newer copy of revision 1 and overwrote the older
\* copy of revision 2
C11_Witness ==
    /\ pc = "done"
    /\ atStart.secondary = {SecondaryCopy(1), SecondaryCopy(2)}
    /\ atStart.primary = {Revision(1, 3, "b"), Revision(2, 1, "a")}
    /\ primary = {Revision(1, 3, "b"), Revision(2, 2, "a")}
    /\ "primary.removeOneByUuid" \in calls

\* --------------------------------------------------------------------- C12
\* what the integrity check accepts: primary has at least as many revisions as
\* secondary and a newer or identical copy of every secondary revision
IntegrityHolds ==
    /\ countByUserUuid(primary) >= countByUserUuid(secondary)
    /\ \A r \in secondary : HasCopyIn(primary, r)

IntegrityCheckOk == Position = "removeByUserUuid"

IntegrityCheckFailedWith(message) ==
    Position = "resetPagingProgress" /\ error = message

\* C12: an integrity check that starts at integrityProgress = 1 and in which no
\* store call throws returns ok exactly when primary has at least as many
\* revisions as secondary and a strictly newer or identical copy of every
\* secondary revision.  With fewer revisions in primary it fails on the counts,
\* before integrityProgress is written or a page is read; a not-found failure
\* is raised at the first secondary revision that primary does not hold.
C12_IntegrityDecision ==
    (config = "ok" /\ atStart.integrity = 1)
        => /\ IntegrityCheckOk => IntegrityHolds
           /\ (Position = "resetPagingProgress"
                    /\ error # "Errored when checking integrity between primary and secondary database")
                => ~IntegrityHolds
           /\ IntegrityCheckFailedWith("Total revisions count in primary database does not match")
                => /\ countByUserUuid(primary) < countByUserUuid(secondary)
                   /\ integrityProgress = atStart.integrity
                   /\ "transition.setIntegrityProgress" \notin calls
                   /\ FetchedForIntegrity = <<>>
           /\ (Position \in {"setIntegrityProgress"} \cup IntegrityPageSteps
                    \/ IntegrityCheckFailedWith("Revision not found in primary database")
                    \/ IntegrityCheckFailedWith(
                          "Revision is not identical in primary and secondary database"))
                => countByUserUuid(primary) >= countByUserUuid(secondary)
           /\ IntegrityCheckFailedWith("Revision not found in primary database")
                => /\ findOneByUuid(primary, Head(revisions).id) = NoRevision
                   /\ \A r \in secondary :
                         r.id < Head(revisions).id => findOneByUuid(primary, r.id) # NoRevision

\* the check accepted revision 1 and failed at revision 2, which primary lacks
C12_Witness ==
    /\ atStart.integrity = 1
    /\ pc = "resetPagingProgress"
    /\ error = "Revision not found in primary database"
    /\ Head(revisions).id = 2
    /\ Len(FetchedForIntegrity) = 2

\* --------------------------------------------------------------------- C13
\* the steps of execute that await a count, a page read or a progress cursor
StoreCallSteps ==
    {"isAlreadyMigrated", "getPagingProgress", "countSecondaryForMigration",
     "setPagingProgress", "findByUserUuidForMigration", "getIntegrityProgress",
     "countSecondaryForIntegrity", "countPrimaryForIntegrity", "setIntegrityProgress",
     "findByUserUuidForIntegrity", "resetPagingProgress", "resetIntegrityProgress"}

\* C13: a count, page read or progress-cursor call that throws, wherever in
\* execute it is awaited, never lets the exception escape execute: the attempt
\* goes on to publish Failed and to return a failure Result.
C13_StoreFailureNeverEscapes ==
    [][pc' = "threw" => pc \notin StoreCallSteps]_vars

\* --------------------------------------------------------------------- C14
\* C14: when the secondary revision repository or the transition status
\* repository is null, or the user uuid does not parse, execute returns a
\* failure Result at once: it publishes no status, calls no store, timer or
\* publisher, and leaves both stores and both cursors as they were.
C14_ConfigurationFailure ==
    (pc # "idle" /\ config # "ok")
        => /\ pc = "done"
           /\ result = ResultFail(config)
           /\ published = <<>>
           /\ calls = {}
           /\ fetched = <<>>
           /\ secondary = atStart.secondary
           /\ primary = atStart.primary
           /\ pagingProgress = atStart.paging
           /\ integrityProgress = atStart.integrity

\* execute was called again without a secondary repository, with revisions
\* still waiting in secondary
C14_Witness ==
    /\ pc = "done"
    /\ config = "noSecondaryRepository"
    /\ previous.end = "done"
    /\ secondary # {}
    /\ result.kind = "fail"

\* --------------------------------------------------------------------- C15
\* the run of the scheduled task has published a TransitionRequested event
\* for (user, type)
RequestedInThisRun(user, type) == attempts[<<user, type>>][scheduler.run] # "none"

\* the status the run read for the type (lines 61, 62)
StatusRead(type) ==
    IF type = "items" THEN scheduler.itemsTransitionStatus
    ELSE scheduler.revisionsTransitionStatus

\* C15: when a run is done with a user, it has published a TransitionRequested
\* event for (user, T) exactly when the user is not skipped (the user holds the
\* role TransitionUser or one of the two statuses read is not Verified) and the
\* status read for T is absent, or Failed, or InProgress with forceRun set; so
\* none for a status InProgress without forceRun and none for Verified.
C15_RequestedExactlyWhenTriggered ==
    scheduler.pc = "nextUser"
        => LET user == Head(scheduler.users)
               notSkipped ==
                  \/ user \in usersWithTransitionRole
                  \/ scheduler.itemsTransitionStatus # Verified
                  \/ scheduler.revisionsTransitionStatus # Verified
           IN \A type \in Types :
                /\ RequestedInThisRun(user, type)
                     <=> /\ notSkipped
                         /\ \/ StatusRead(type) = Absent
                            \/ StatusRead(type) = Failed
                            \/ (StatusRead(type) = InProgress /\ scheduler.forceRun)
                /\ (StatusRead(type) = InProgress /\ ~scheduler.forceRun)
                     => ~RequestedInThisRun(user, type)
                /\ StatusRead(type) = Verified => ~RequestedInThisRun(user, type)

\* a run without forceRun that found items InProgress and revisions Failed and
\* requested the revisions transition only
C15_Witness ==
    /\ scheduler.pc = "nextUser"
    /\ ~scheduler.forceRun
    /\ scheduler.itemsTransitionStatus = InProgress
    /\ scheduler.revisionsTransitionStatus = Failed
    /\ RequestedInThisRun(Head(scheduler.users), "revisions")
    /\ ~RequestedInThisRun(Head(scheduler.users), "items")

\* --------------------------------------------------------------------- C16
\* a requested transition that has ended neither with a status nor otherwise
InFlightPhases == {"requested"} \cup RunningPhases

\* C16: as long as no run has forceRun set, a TransitionRequested event for
\* the revisions of a user is published only when no transition requested
\* earlier for the same user is still waiting on the bus or running.
C16_OneAttemptAtATime ==
    [][\A p \in RevisionsPairs : \A n \in 1 .. MaxRuns :
          (attempts[p][n] = "none" /\ attempts'[p][n] = "requested" /\ ~everForced)
              => \A m \in 1 .. MaxRuns : attempts[p][m] \notin InFlightPhases]_vars

\* --------------------------------------------------------------------- C17
RemovePc(type) == IF type = "items" THEN "removeItems" ELSE "removeRevisions"

PublishPc(type) == IF type = "items" THEN "publishItems" ELSE "publishRevisions"

\* the step publishes the TransitionRequested event of run n for p
RequestPublished(p, n) == attempts[p][n] = "none" /\ attempts'[p][n] = "requested"

\* C17: a TransitionRequested event for (user, type) is published only by the
\* step that follows the removal of the row of (user, type), and that removal
\* clears the status and both cursors in one step; so (here as long as no run
\* has forceRun set) the transition started by the event reads
\* pagingProgress = 1 and integrityProgress = 1.
C17_RemovedBeforeRequested ==
    [][/\ \A q \in Pairs : \A n \in 1 .. MaxRuns :
             RequestPublished(q, n)
                => /\ scheduler.pc = PublishPc(q[2])
                   /\ q[1] = Head(scheduler.users)
                   /\ n = scheduler.run
       /\ \A type \in Types :
             (scheduler.pc # PublishPc(type) /\ scheduler'.pc = PublishPc(type))
                => /\ scheduler.pc = RemovePc(type)
                   /\ transitionStatuses'[<<Head(scheduler.users), type>>] = NoTransitionStatus
       /\ ~everForced
             => \A q \in RevisionsPairs : \A n \in 1 .. MaxRuns :
                   /\ (attempts[q][n] = "inProgress" /\ attempts'[q][n] = "migrating")
                        => transitionStatuses[q].pagingProgress = 1
                   /\ (attempts[q][n] = "migrating" /\ attempts'[q][n] = "checking")
                        => transitionStatuses[q].integrityProgress = 1]_vars


\* --------------------------------------------------------------------- C18
HasNoPayload(item) ==
    /\ item.content = Null
    /\ item.encItemKey = Null
    /\ item.authHash = Null
    /\ item.itemsKeyId = Null
    /\ item.duplicateOf = Null

UpdateSucceeded == updaterPc = "done" /\ updateResult = ResultOk

\* C18: when an update has succeeded, the item is deleted and has no content,
\* encItemKey, authHash, itemsKeyId and duplicateOf if the hash had deleted =
\* true, whatever else the hash carried; and if the item was deleted without
\* these five fields before the update, it is not deleted with one of them
\* after it.
C18_DeletedItemsHaveNoPayload ==
    UpdateSucceeded =>
        /\ dto.itemHash.deleted => existingItem.deleted /\ HasNoPayload(existingItem)
        /\ (itemAtStart.deleted => HasNoPayload(itemAtStart))
              => (existingItem.deleted => HasNoPayload(existingItem))

\* --------------------------------------------------------------------- C19
\* the association after the update is another entity than the one before it
IsReplaced(before, after) == after.id # before.id

\* what an update whose hash names `named` may make of the association
AssociationRule(before, after, named) ==
    /\ IsReplaced(before, after) <=>
          /\ named # Null
          /\ before.with = Null \/ before.with # named
    /\ IsReplaced(before, after) => after.with = named
    /\ ~IsReplaced(before, after) => after = before

\* C19: when an update has succeeded, the shared-vault association of the item
\* is a newly created one exactly when the hash names a vault and the item had
\* no association or one with another vault, and is otherwise the association
\* the item had, with its id (so also when the hash names the vault of the
\* association); the same for the key-system association.  This holds for
\* every update of a sequence.
C19_AssociationIdentity ==
    UpdateSucceeded =>
        /\ AssociationRule(itemAtStart.sharedVaultAssociation,
                           existingItem.sharedVaultAssociation,
                           dto.itemHash.shared_vault_uuid)
        /\ AssociationRule(itemAtStart.keySystemAssociation,
                           existingItem.keySystemAssociation,
                           dto.itemHash.key_system_identifier)

\* an update has replaced an association created by an earlier update, the
\* hash naming another vault, and has kept the key-system association, the
\* hash naming its key system
C19_Witness ==
    /\ UpdateSucceeded
    /\ itemAtStart.sharedVaultAssociation.id = 2
    /\ dto.itemHash.shared_vault_uuid \notin {Null, itemAtStart.sharedVaultAssociation.with}
    /\ IsReplaced(itemAtStart.sharedVaultAssociation, existingItem.sharedVaultAssociation)
    /\ itemAtStart.keySystemAssociation # NoAssociation
    /\ dto.itemHash.key_system_identifier = itemAtStart.keySystemAssociation.with
    /\ existingItem.keySystemAssociation = itemAtStart.keySystemAssociation

\* --------------------------------------------------------------------- C20
UpdateFailed == updaterPc = "done" /\ updateResult.kind = "fail"

\* C20: when the updater has returned a failure, whatever made it fail,
\* itemRepository.save was not called, no event was published, and the item
\* is as it was when the call started.
C20_FailureLeavesNoTrace ==
    UpdateFailed =>
        /\ saveCalls = 0
        /\ publishedEvents = <<>>
        /\ existingItem = itemAtStart

\* --------------------------------------------------------------------- C21
HasBothTimestamps(hash) ==
    hash.created_at_timestamp # NoTimestamp /\ hash.updated_at_timestamp # NoTimestamp

HasNoCreationTime(hash) ==
    hash.created_at_timestamp = NoTimestamp /\ hash.created_at = Null

UpdateReturned == updaterPc = "done"

\* C21: when an update has succeeded, the timestamps of the item are the
\* created_at_timestamp and updated_at_timestamp of the hash, unchanged, if the
\* hash carries both, and are otherwise its created_at and updated_at strings
\* converted to microseconds; and an update whose hash carries neither
\* created_at nor created_at_timestamp returns a failure, found by the
\* validation.
C21_TimestampSelection ==
    /\ UpdateSucceeded =>
          IF HasBothTimestamps(dto.itemHash)
          THEN /\ existingItem.timestamps.createdAt = dto.itemHash.created_at_timestamp
               /\ existingItem.timestamps.updatedAt = dto.itemHash.updated_at_timestamp
          ELSE /\ dto.itemHash.created_at \in DateStrings
               /\ dto.itemHash.updated_at \in DateStrings
               /\ existingItem.timestamps.createdAt =
                     convertStringDateToMicroseconds(dto.itemHash.created_at)
               /\ existingItem.timestamps.updatedAt =
                     convertStringDateToMicroseconds(dto.itemHash.updated_at)
    /\ UpdateReturned /\ HasNoCreationTime(dto.itemHash) =>
          /\ UpdateFailed
          /\ existingItem = itemAtStart

\* an update succeeded with a hash that carries updated_at_timestamp, no
\* created_at_timestamp and both strings: the strings were taken
C21_Witness ==
    /\ UpdateSucceeded
    /\ dto.itemHash.updated_at_timestamp # NoTimestamp
    /\ dto.itemHash.created_at_timestamp = NoTimestamp
    /\ existingItem.timestamps.updatedAt # dto.itemHash.updated_at_timestamp
    /\ existingItem.timestamps.updatedAt = convertStringDateToMicroseconds(dto.itemHash.updated_at)

\* --------------------------------------------------------------------- C22
\* C22: when the same hash, with the same sessionUuid and performingUserUuid,
\* has been applied to an item and then again to the item the first
\* application left, and both have succeeded, the item after the second
\* application equals the item after the first in every field, its timestamps
\* and both associations with their ids included.
C22_SecondApplicationChangesNothing ==
    UpdateSucceeded /\ appliedAgain => existingItem = itemAtStart

\* the second application of a hash that names a vault and a key system and
\* marks the item as a duplicate has succeeded on an item whose associations
\* the first application created
C22_Witness ==
    /\ UpdateSucceeded
    /\ appliedAgain
    /\ dto.itemHash.shared_vault_uuid # Null
    /\ dto.itemHash.key_system_identifier # Null
    /\ dto.itemHash.duplicate_of # Null
    /\ existingItem.sharedVaultAssociation.id = 2
    /\ existingItem.keySystemAssociation.id = 2

\* --------------------------------------------------------------------- C23
\* C23: nothing is published before save has been called, and when an update
\* has succeeded save was called exactly once, one
\* ItemRevisionCreationRequested was published after it, a DuplicateItemSynced
\* was published too exactly when the hash carried duplicate_of, and the
\* duplicateOf of the item is the duplicate_of of the hash if the hash carried
\* it and did not delete the item, and null otherwise.
C23_SavedOnceThenPublished ==
    /\ publishedEvents # <<>> => saveCalls = 1
    /\ UpdateSucceeded =>
          /\ saveCalls = 1
          /\ publishedEvents =
                IF dto.itemHash.duplicate_of # Null
                THEN <<"ItemRevisionCreationRequested", "DuplicateItemSynced">>
                ELSE <<"ItemRevisionCreationRequested">>
          /\ existingItem.duplicateOf =
                IF dto.itemHash.duplicate_of # Null /\ ~dto.itemHash.deleted
                THEN dto.itemHash.duplicate_of
                ELSE Null

\* an update with a hash that carries duplicate_of and deletes the item has
\* succeeded: both events, no duplicateOf
C23_Witness ==
    /\ UpdateSucceeded
    /\ dto.itemHash.duplicate_of # Null
    /\ dto.itemHash.deleted
    /\ Len(publishedEvents) = 2
    /\ existingItem.duplicateOf = Null

\* --------------------------------------------------------------------- C24
\* the awaited call of the step has returned: nothing was thrown, the attempt
\* was not cancelled
StepReturned == faults' = faults

\* C24: for the revision of secondary at hand, when the lookup in primary
\* returns a copy that is neither identical nor strictly newer the next step is
\* removeOneByUuid on primary, then the sleep, then the insert, each entered
\* from the one before it only; when the lookup returns no copy the next step
\* is the insert, which is entered in no other way.  An insert that returns
\* leaves in primary a copy identical to the copy in secondary, and no other.
C24_RemoveSleepInsert ==
    [][LET revision == Head(revisions)
           revisionInPrimary == findOneByUuid(primary, revision.id)
       IN /\ pc = "findOneByUuidForMigration" /\ StepReturned =>
                /\ primary' = primary
                /\ revisionInPrimary = NoRevision => pc' = "insert"
                /\ (/\ revisionInPrimary # NoRevision
                    /\ ~isIdenticalTo(revisionInPrimary, revision)
                    /\ ~(revisionInPrimary.updatedAt > revision.updatedAt))
                      => pc' = "removeOneByUuid"
          /\ pc' = "removeOneByUuid" => pc = "findOneByUuidForMigration"
          /\ pc = "removeOneByUuid" /\ StepReturned =>
                /\ pc' = "allowForPrimaryDatabaseToCatchUpAfterRemove"
                /\ findOneByUuid(primary', revision.id) = NoRevision
          /\ pc' = "allowForPrimaryDatabaseToCatchUpAfterRemove" =>
                pc = "removeOneByUuid" /\ StepReturned
          /\ pc = "allowForPrimaryDatabaseToCatchUpAfterRemove" /\ StepReturned =>
                pc' = "insert" /\ primary' = primary /\ revisions' = revisions
          /\ pc' = "insert" =>
                \/ pc = "allowForPrimaryDatabaseToCatchUpAfterRemove" /\ StepReturned
                \/ /\ pc = "findOneByUuidForMigration"
                   /\ revisionInPrimary = NoRevision
          /\ pc = "insert" /\ StepReturned =>
                /\ revision \in secondary
                /\ \A copy \in primary' : copy.id = revision.id => isIdenticalTo(copy, revision)
                /\ \E copy \in primary' : copy.id = revision.id
      ]_vars

\* the migration phase has ended without an error and a revision whose primary
\* copy was older and different is now the same in both stores
C24_Witness ==
    /\ pc = "allowForPrimaryDatabaseToCatchUp"
    /\ errorLog = {}
    /\ {"primary.removeOneByUuid", "timer.sleep", "primary.insert"} \subseteq calls
    /\ \E r \in secondary \cap primary :
         \E p \in atStart.primary :
            p.id = r.id /\ ~isIdenticalTo(p, r) /\ p.updatedAt <= r.updatedAt

\* --------------------------------------------------------------------- C25
RevisionSteps ==
    {"findOneByUuidForMigration", "removeOneByUuid",
     "allowForPrimaryDatabaseToCatchUpAfterRemove", "insert"}

RevisionDiagnostics ==
    {"Errored when saving revision to primary database",
     "Failed to save revision to primary database"}

\* the step after the revision at hand: the next revision of the page, else
\* the next page, else the end of the migration phase
AfterThisRevision ==
    IF Tail(revisions) # <<>>
    THEN pc' = "findOneByUuidForMigration" /\ currentPage' = currentPage
    ELSE pc' = MigrationPagePc(currentPage + 1, totalPages) /\ currentPage' = currentPage + 1

C25_RevisionErrorSwallowed ==
    (pc \in RevisionSteps /\ ~StepReturned /\ pc' # "crashed") =>
        /\ errorLog' \cap RevisionDiagnostics # {}
        /\ revisions' = Tail(revisions)
        /\ AfterThisRevision
        /\ UNCHANGED <<error, result, published, fetched, stores>>

C25_ReachesIntegrityCheck ==
    (pc = "done" /\ errorLog # {}) =>
        \/ error = "Errored when migrating revisions for user"
        \/ /\ "transition.getIntegrityProgress" \in calls
           /\ LET total == Ceil(Cardinality(atStart.secondary), pageSize)
              IN \A page \in atStart.paging .. total :
                    \E i \in 1 .. Len(FetchedPages) : FetchedPages[i] = page
           /\ Last(published) \in {Verified, Failed}
           /\ result = ResultOk <=> Last(published) = Verified

\* C25: a lookup, removal, sleep or insert of the revision loop that throws,
\* or an insert that reports false, is logged and the loop goes on with the
\* next revision of the page, else with the next page, else the migration
\* phase ends without an error; and an attempt that logged such an error and
\* in which no page-level call of the migration threw has read every page
\* from the stored cursor to the last, has reached the integrity check and has
\* ended with Verified or Failed.
C25_RevisionErrorsDoNotAbort ==
    [][C25_RevisionErrorSwallowed /\ C25_ReachesIntegrityCheck']_vars

\* a lookup threw for a revision of the first of two pages; the second page was
\* migrated, the integrity check passed and the attempt ended Verified
C25_Witness ==
    /\ pc = "done"
    /\ "Errored when saving revision to primary database" \in errorLog
    /\ Len(FetchedPages) >= 2
    /\ "transition.getIntegrityProgress" \in calls
    /\ result = ResultOk
    /\ Last(published) = Verified

\* --------------------------------------------------------------------- C26
IsKeepAlivePage(page, total) == page % Ceil(total, 10) = 0

KeepAlivePages(from, to, total) == {page \in from .. to : IsKeepAlivePage(page, total)}

\* statuses published after the InProgress of line 49
KeepAlives == Len(published) - 1

\* the keep-alives of a run over all the pages 1 .. total
C26_CadenceOfFullRun ==
    \A total \in 1 .. MaxTotalPages :
        LET emitted == Cardinality(KeepAlivePages(1, total, total))
        IN /\ emitted \in 1 .. 10
           /\ total <= 10 => emitted = total

\* C26: during the migration phase InProgress is published again for page P
\* exactly when P mod ceil(totalPages / 10) = 0, before pagingProgress is set
\* to P; a run from page 1 to the last page publishes between one and ten of
\* them, and one for every page when there are at most ten pages.
C26_KeepAliveCadence ==
    LET P0 == atStart.paging
    IN /\ C26_CadenceOfFullRun
       /\ Position = "publishKeepAlive" =>
            /\ IsKeepAlivePage(currentPage, totalPages)
            /\ KeepAlives = Cardinality(KeepAlivePages(P0, currentPage - 1, totalPages))
            /\ currentPage > P0 => pagingProgress = currentPage - 1
       /\ Position = "setPagingProgress" =>
            /\ KeepAlives = Cardinality(KeepAlivePages(P0, currentPage, totalPages))
            /\ currentPage > P0 => pagingProgress = currentPage - 1
       /\ Position \in MigrationPageSteps =>
            /\ KeepAlives = Cardinality(KeepAlivePages(P0, currentPage, totalPages))
            /\ \A i \in 1 .. KeepAlives + 1 : published[i] = InProgress
            /\ pagingProgress = currentPage
       /\ Position = "allowForPrimaryDatabaseToCatchUp" =>
            /\ KeepAlives = Cardinality(KeepAlivePages(P0, totalPages, totalPages))
            /\ P0 = 1 => KeepAlives \in 1 .. 10
            /\ (P0 = 1 /\ totalPages <= 10) => KeepAlives = totalPages

\* twelve pages of one revision: every second page has a keep-alive
C26_Witness ==
    /\ pc = "allowForPrimaryDatabaseToCatchUp"
    /\ atStart.paging = 1
    /\ totalPages = 12
    /\ published = <<InProgress, InProgress, InProgress, InProgress, InProgress,
                     InProgress, InProgress>>

\* --------------------------------------------------------------------- C27
\* a run started now with this forceRun would request the transition
Eligible(rows, p, forceRun) ==
    /\ ~Skipped(p[1], rows[<<p[1], "items">>].status, rows[<<p[1], "revisions">>].status)
    /\ Triggers(rows[p].status, forceRun)

\* a step of requestTransition, its stopping included
SchedulerStep == scheduler' # scheduler

C27_StepKeepsEligible ==
    SchedulerStep =>
        \A p \in Pairs, forceRun \in BOOLEAN :
            (Eligible(transitionStatuses, p, forceRun) /\ attempts'[p] = attempts[p])
                => Eligible(transitionStatuses', p, forceRun)

\* the call stopped after the row was removed and before the request was published
StoppedBeforePublish(p) ==
    /\ scheduler.pc = "failed"
    /\ scheduler.users # <<>>
    /\ Head(scheduler.users) = p[1]
    /\ StatusRead(p[2]) # Absent
    /\ transitionStatuses[p].status = Absent
    /\ ~RequestedInThisRun(p[1], p[2])

C27_RetryRequests ==
    /\ \A p \in Pairs : StoppedBeforePublish(p) =>
            \A forceRun \in BOOLEAN : Eligible(transitionStatuses, p, forceRun)
    /\ (scheduler.pc = "nextUser" /\ scheduler.run > 1) =>
            \A type \in Types :
                LET p == <<Head(scheduler.users), type>>
                IN (/\ ~Skipped(p[1], scheduler.itemsTransitionStatus,
                                scheduler.revisionsTransitionStatus)
                    /\ Triggers(StatusRead(type), scheduler.forceRun))
                        => RequestedInThisRun(p[1], type)

\* C27: no step of the scheduler, its stopping at any awaited call included,
\* makes a (user, type) that a run would request into one a run would not
\* request, unless the step publishes that request; a (user, type) whose row
\* was removed by a run that stopped before publishing is requested by any
\* later run, with or without forceRun; and a later run requests every
\* (user, type) that it reads as eligible.
C27_IdempotentUnderRetry ==
    [][C27_StepKeepsEligible /\ C27_RetryRequests']_vars

\* a run read Failed for the revisions of a user, removed the row and stopped
\* before the request was published
C27_Witness ==
    \E user \in Users :
        /\ StoppedBeforePublish(<<user, "revisions">>)
        /\ scheduler.revisionsTransitionStatus = Failed
        /\ scheduler.run < MaxRuns
        /\ \A n \in 1 .. MaxRuns : attempts[<<user, "revisions">>][n] = "none"

\* --------------------------------------------------------------------- C28
\* primary holds a copy of the revision that is identical or strictly newer
CoveredInPrimary(revision) ==
    \E copy \in primary :
        /\ copy.id = revision.id
        /\ (isIdenticalTo(revision, copy) \/ copy.updatedAt > revision.updatedAt)

\* C28: whatever pagingProgress and integrityProgress hold when the attempt
\* starts, the revisions of the user are removed from secondary only when
\* every revision then in secondary has a copy in primary that is identical
\* or has a strictly greater updatedAt.
C28_CleanupOnlyWhenCovered ==
    Position = "removeByUserUuid" => \A revision \in secondary : CoveredInPrimary(revision)

\* the same for attempts that start with both cursors at 1
C28_FromFirstPage ==
    (atStart.paging = 1 /\ atStart.integrity = 1) => C28_CleanupOnlyWhenCovered

\* --------------------------------------------------------------------- C29
InStore(store, revision) == \E copy \in store : copy.id = revision.id

BothFinished == \A a \in Attempts : attempt[a].pc = "done"

C29_InOneOfTheStores ==
    \A revision \in shared.atStart :
        InStore(shared.secondary, revision) \/ InStore(shared.primary, revision)

C29_InPrimaryAtTheEnd ==
    BothFinished => \A revision \in shared.atStart : InStore(shared.primary, revision)

\* C29: when two execute calls for the same user interleave at their awaited
\* calls, every revision that secondary held at the start is, in every
\* reachable state, in at least one of the two stores, and is in primary when
\* both calls have ended.
C29_NeverLostFromBothStores ==
    /\ C29_InOneOfTheStores
    /\ C29_InPrimaryAtTheEnd

\* --------------------------------------------------------------------- C30
\* positions of an attempt whose migration phase or integrity check has failed
FailedPhaseSteps ==
    {"publishFailedMigration", "resetPagingProgress", "resetIntegrityProgress",
     "publishFailedIntegrity"}

PhaseFailed ==
    \/ Position \in FailedPhaseSteps
    \/ pc \in {"done", "threw"} /\ "publisher.publish" \in calls
         /\ (error = "Errored when migrating revisions for user" \/ error \in IntegrityDiagnostics
             \/ error = "Errored when checking integrity between primary and secondary database")

C30_FailedAttemptKeepsSecondary ==
    PhaseFailed =>
        /\ "secondary.removeByUserUuid" \notin calls
        /\ secondary = atStart.secondary

\* C30: only the cleanup writes to secondary: as long as an attempt has not
\* made its cleanup call, whatever the migration phase and the integrity
\* check have done, secondary holds exactly the revisions it held when the
\* attempt started, and the cleanup call leaves them or removes them all; an
\* attempt whose migration phase or integrity check failed has made no
\* cleanup call, so it leaves in secondary exactly the revisions that were
\* there when it started.
C30_SecondaryFrame ==
    /\ pc # "idle" =>
          IF "secondary.removeByUserUuid" \in calls
          THEN secondary \in {atStart.secondary, {}}
          ELSE secondary = atStart.secondary
    /\ C30_FailedAttemptKeepsSecondary

\* the migration phase wrote to primary, the integrity check failed and the
\* attempt ended Failed
C30_Witness ==
    /\ pc = "done"
    /\ result.kind = "fail"
    /\ error \in IntegrityDiagnostics
    /\ Last(published) = Failed
    /\ primary # atStart.primary
    /\ secondary # {}
    /\ secondary = atStart.secondary

\* --------------------------------------------------------------------- C31
\* positions inside the page loop of the migration phase / of the integrity check
MigrationLoopSteps == MigrationPageSteps \cup {"publishKeepAlive", "setPagingProgress"}

IntegrityLoopSteps == IntegrityPageSteps \cup {"setIntegrityProgress"}

\* the page bound of a loop is the one computed before the loop, and a loop
\* reads no more pages than that
C31_PageBoundsComputedOnce ==
    /\ (pc \in MigrationLoopSteps /\ pc' \in MigrationLoopSteps) => totalPages' = totalPages
    /\ (pc \in IntegrityLoopSteps /\ pc' \in IntegrityLoopSteps) => totalPages' = totalPages
    /\ pc' \in MigrationLoopSteps =>
          /\ currentPage' <= totalPages'
          /\ Len(FetchedForMigration') <= totalPages'
    /\ pc' \in IntegrityLoopSteps =>
          /\ currentPage' <= totalPages'
          /\ Len(FetchedForIntegrity') <= totalPages'

AttemptInProgress == Running /\ published # <<>> /\ published[1] = InProgress

AttemptEnded == pc = "done" /\ published # <<>> /\ Last(published) \in {Verified, Failed}

\* C31: when every store call, publish and sleep returns, the page bound of
\* each loop is the one computed before the loop, whatever is added to the
\* stores meanwhile, each loop reads at most that many pages, every attempt
\* ends, and every attempt that published InProgress goes on to publish
\* Verified or Failed.
C31_AttemptTerminates ==
    /\ [][C31_PageBoundsComputedOnce]_vars
    /\ Running ~> (pc = "done")
    /\ AttemptInProgress ~> AttemptEnded

\* revisions were added to secondary while the attempt ran; it ended Failed
C31_Witness ==
    /\ AttemptEnded
    /\ published[1] = InProgress
    /\ Cardinality(secondary) > Cardinality(atStart.secondary)
    /\ Len(FetchedForMigration) >= 1

====
